---- MODULE Spec2Model ----
(***************************************************************************)
(* je4OS kernel: scheduler (kernel/src/sched), blocking / sleep, timer     *)
(* queue and softirq drain (kernel/src/timer.rs), timer interrupt path     *)
(* (kernel/src/idt.rs).  Single CPU: the CPU runs the top frame of the     *)
(* stack of CURRENT_TASK; a timer interrupt can arrive whenever RFLAGS_IF is set.    *)
(***************************************************************************)
EXTENDS Integers, Sequences, FiniteSets, TLC

\* ---------------------------------------------------------------- bounds
MaxTicks == 2
MaxOps == 2
DeepTicks == 3
NiceTicks == 10000

\* ------------------------------------------------------------- constants
TIMER_PERIOD_NS == 10000000
TIMER_FREQUENCY_HZ == 100
BASE_WEIGHT == 1024
NICE_MIN == 0 - 20
NICE_DEFAULT == 0
NICE_MAX == 19
RT_PRIORITY_MIN == 1
RT_PRIORITY_DEFAULT == 50
RT_PRIORITY_MAX == 99
VBase == 1024 * 1024

NoTask == 0 - 1

PRIO_TO_WEIGHT ==
  << 88761, 71755, 56483, 46273, 36291, 29154, 23254, 18705, 14949, 11916,
     9548, 7620, 6100, 4904, 3906, 3121, 2501, 1991, 1586, 1277,
     1024, 820, 655, 526, 423, 335, 272, 215, 172, 137,
     110, 87, 70, 56, 45, 36, 29, 23, 18, 15 >>

Min2(a, b) == IF a < b THEN a ELSE b
Max2(a, b) == IF a > b THEN a ELSE b

\* nice.clamp(MIN, MAX); index = clamped - MIN (0-based), table lookup
nice_to_weight(nice) ==
  LET clamped == Max2(NICE_MIN, Min2(NICE_MAX, nice))
      index == clamped - NICE_MIN
  IN PRIO_TO_WEIGHT[index + 1]

\* Task::new / Task::new_realtime / Task::new_idle (static part of a Task)
TaskNew(nice) ==
  LET clamped == Max2(NICE_MIN, Min2(NICE_MAX, nice))
  IN [sched_class |-> "Normal", nice |-> clamped, rt_priority |-> 0,
      weight |-> nice_to_weight(clamped)]

TaskNewRealtime(p) ==
  [sched_class |-> "Realtime", nice |-> 0,
   rt_priority |-> Min2(p, RT_PRIORITY_MAX), weight |-> 0]

TaskNewIdle ==
  [sched_class |-> "Idle", nice |-> NICE_MAX, rt_priority |-> 0,
   weight |-> nice_to_weight(NICE_MAX)]

\* SchedulingClass discriminants: Realtime = 2, Normal = 1, Idle = 0
ClassRank(c) == IF c = "Realtime" THEN 2 ELSE IF c = "Normal" THEN 1 ELSE 0

\* ------------------------------------------------ vruntime (u64) arithmetic
\* A vruntime is kept as <<hi, lo>> = hi * VBase + lo, lo < VBase, so that
\* the exact u64 values of the code are computed with 32-bit integers.
VrZero == <<0, 0>>

\* (delta * BASE_WEIGHT) / weight, as a <<hi, lo>> pair
VrIncrement(delta, weight) ==
  LET q == delta \div weight
      r == delta % weight
  IN << q \div BASE_WEIGHT,
        (q % BASE_WEIGHT) * BASE_WEIGHT + (r * BASE_WEIGHT) \div weight >>

VrAdd(a, b) ==
  LET lo == a[2] + b[2]
  IN << a[1] + b[1] + (lo \div VBase), lo % VBase >>

VrLess(a, b) == a[1] < b[1] \/ (a[1] = b[1] /\ a[2] < b[2])

\* Task::update_vruntime
update_vruntime(vr, weight, delta) ==
  IF weight = 0 THEN vr ELSE VrAdd(vr, VrIncrement(delta, weight))

\* ms_to_ticks: (ms * frequency) / 1000
ms_to_ticks(ms) == (ms * TIMER_FREQUENCY_HZ) \div 1000

\* ------------------------------------------------------------- variables
VARIABLES
  task,               \* id -> static fields of the Task
  state,              \* id -> TaskState
  vruntime,           \* id -> vruntime
  CURRENT_TASK, RT_QUEUE, CFS_QUEUE, IDLE_QUEUE,
  BLOCKED_TASKS, WAKEUP_PENDING,
  NEED_RESCHED, ACCUMULATED_RUNTIME,
  TICK_COUNT, TIMER_ID_COUNTER, SOFTIRQ_PENDING, IN_SOFTIRQ,
  TIMER_QUEUE, PENDING_QUEUE,
  RFLAGS_IF,          \* RFLAGS.IF of the CPU (interrupts enabled)
  stack,              \* id -> kernel stack of the task: sequence of frames
  next_task,          \* local of schedule() between phase 1 and phase 2
  \* observers (no effect on the program)
  decided,            \* origin of the schedule() call that has just completed
  registry,           \* timer id -> delay, ticks at the call, at Timer::new and
                      \* at the push, task it wakes, invocations
  sleepTimer,         \* id -> timer id of the sleep_ms call in progress
  wait,               \* id -> progress of the block_current_task call
  dispatches,         \* id -> number of times schedule() switched to the task
  observe,            \* whether dispatches are counted in this behaviour
  opCount,            \* task-level operations started
  \* one BlockingMutex<u64>
  locked,             \* BlockingMutex.locked
  waiters,            \* BlockingMutex.wait_queue.waiters
  data,               \* BlockingMutex.data
  guards,             \* tasks that own a MutexGuard of the mutex (observer)
  updates,            \* increments of data completed under a guard (observer)
  \* lock discipline (one CPU)
  context,            \* id -> what Task.context.rsp points at: the saved RFLAGS
  held,               \* spin locks held, in acquisition order
  code,               \* id -> activations of the task: lock and flag events to come
  \* the slab allocator
  heap,               \* heap_start and heap_size handed to init (size 0: not yet)
  free_list,          \* size class index -> SlabCache.free_list, head first
  large_alloc_next, large_alloc_end,
  live,               \* allocations handed out and not yet returned (observer)
  allocCount,         \* alloc calls made (observer)
  \* the compositor
  vecHeap,            \* the Vec<SharedBuffer> allocations behind an Arc, by identity
  buffers,            \* Compositor.buffers: the Vec it points at (0: COMPOSITOR is None)
  dirty,              \* buffer -> WriterBuffer.dirty, in registration order
  buffers_snapshot,   \* compositor_task: the Vec its snapshot points at (0: none held)
  renderPos,          \* compositor_task: position of the render loop in the snapshot
  FRAME_COUNT,
  snapTaken,          \* what the snapshot held when it was taken (observer)
  \* paging
  KERNEL_PML4,        \* index -> entry (entries that are 0 are left out)
  KERNEL_PDP_HIGH,
  KERNEL_PD_HIGH,     \* << pd, index >> -> entry
  KERNEL_PT_HIGH,     \* page number (pt_idx * 512 + page_idx) -> raw entry
  CR3,
  pagingInit,         \* result of paging::init, with its inputs (observer)
  lastConv,           \* the last address conversion and its result (observer)
  \* the bootloader
  boot_info,          \* the BootInfo at BOOT_INFO_ADDR
  bootPc,             \* "firmware" until efi_main has jumped to the kernel
  \* graphics: one TaskWriter and its SharedBuffer
  tw,                 \* the TaskWriter and what was written through it
  shared,             \* the WriterBuffer behind the SharedBuffer and its lock
  flushPc,            \* where the writer's flush() is
  passPc,             \* where compositor_task is with this buffer
  rendered,           \* the commands render_commands_to was given, in order
  passes              \* compositor passes over the buffer, and those skipped

schedVars == << state, vruntime, CURRENT_TASK, RT_QUEUE, CFS_QUEUE, IDLE_QUEUE,
                BLOCKED_TASKS, next_task, ACCUMULATED_RUNTIME, dispatches >>
wakeVars == << state, RT_QUEUE, CFS_QUEUE, IDLE_QUEUE, BLOCKED_TASKS,
               WAKEUP_PENDING, wait >>
mutexVars == << locked, waiters, data, guards, updates >>
lockVars == << held, code >>
timerVars == << TICK_COUNT, TIMER_ID_COUNTER, SOFTIRQ_PENDING, IN_SOFTIRQ,
                TIMER_QUEUE, PENDING_QUEUE >>

allocVars == << heap, free_list, large_alloc_next, large_alloc_end, live, allocCount >>
compVars == << vecHeap, buffers, dirty, buffers_snapshot, renderPos, FRAME_COUNT,
              snapTaken >>
pagingVars == << KERNEL_PML4, KERNEL_PDP_HIGH, KERNEL_PD_HIGH, KERNEL_PT_HIGH, CR3,
                pagingInit, lastConv >>
bootVars == << boot_info, bootPc >>
drawVars == << tw, shared, flushPc, passPc, rendered, passes >>
libVars == << allocVars, compVars, pagingVars, bootVars, drawVars >>

kernelVars == << task, state, vruntime, CURRENT_TASK, RT_QUEUE, CFS_QUEUE, IDLE_QUEUE,
           BLOCKED_TASKS, WAKEUP_PENDING, NEED_RESCHED, ACCUMULATED_RUNTIME,
           TICK_COUNT, TIMER_ID_COUNTER, SOFTIRQ_PENDING, IN_SOFTIRQ,
           TIMER_QUEUE, PENDING_QUEUE, RFLAGS_IF, stack, next_task,
           decided, registry, sleepTimer, wait, dispatches, observe, opCount,
           locked, waiters, data, guards, updates, context, held, code >>
vars == << kernelVars, libVars >>

\* SlabAllocator::new(): empty caches, no heap
AllocatorNew ==
  /\ heap = [start |-> 0, size |-> 0]
  /\ free_list = [c \in 1..10 |-> << >>]
  /\ large_alloc_next = 0
  /\ large_alloc_end = 0
  /\ live = {}
  /\ allocCount = 0

\* COMPOSITOR before init_compositor, compositor_task before its first frame
CompositorNone ==
  /\ vecHeap = << >>
  /\ buffers = 0
  /\ dirty = << >>
  /\ buffers_snapshot = 0
  /\ renderPos = 0
  /\ FRAME_COUNT = 0
  /\ snapTaken = [list |-> << >>, registered |-> 0]

\* PageTable::new() for every static table, paging::init not yet called
PageTableNew ==
  /\ KERNEL_PML4 = << >>
  /\ KERNEL_PDP_HIGH = << >>
  /\ KERNEL_PD_HIGH = << >>
  /\ KERNEL_PT_HIGH = << >>
  /\ CR3 = "firmware"
  /\ pagingInit = [result |-> "none", actual_max |-> 0, stack |-> << 0, 0, 0 >>]
  /\ lastConv = [op |-> "none", arg |-> << 0, 0, 0 >>,
                 res |-> [ok |-> FALSE, val |-> << 0, 0, 0 >>, err |-> "none"],
                 from |-> << >>]

\* BootInfo::new()
BootInfoNew ==
  [memory_map |-> << >>, memory_map_count |-> 0, max_physical_address |-> 0]

\* The machine before efi_main has run
Firmware ==
  /\ boot_info = BootInfoNew
  /\ bootPc = "firmware"

\* The colours a TaskWriter is created with and set to
Colors == {1, 2}

\* TaskWriter::new(buffer, color), with nothing written yet
TaskWriterNew(color) ==
  [w |-> [local_commands |-> << >>, cursor_x |-> 0, cursor_y |-> 0,
          color |-> color, pending_text |-> << >>, pending_x |-> 0,
          pending_y |-> 0],
   written |-> << >>, pushed |-> 0, ops |-> 0]

\* WriterBuffer::new(region) behind an unlocked BlockingMutex
WriterBufferNew == [commands |-> << >>, dirty |-> FALSE, locked |-> FALSE]

\* A writer registered and created with one of the given colours, the
\* compositor between two passes
DrawBoot(colors) ==
  /\ tw \in { TaskWriterNew(c) : c \in colors }
  /\ shared = WriterBufferNew
  /\ flushPc = "idle"
  /\ passPc = "idle"
  /\ rendered = << >>
  /\ passes = [done |-> 0, skipped |-> 0]

\* The state of what the scheduler and the timer do not touch
LibIdle == AllocatorNew /\ CompositorNone /\ PageTableNew /\ Firmware /\ DrawBoot({1})

Tasks == DOMAIN task

\* ------------------------------------------------------------ run queues
\* RT_QUEUE: BTreeMap<(u8, u64), Task>, CFS_QUEUE: BTreeMap<(u64, u64), Task>;
\* a map is the set of its keys, the value being the task whose id ends the key.
RtKey(t) == << RT_PRIORITY_MAX - task[t].rt_priority, t >>
CfsKey(t) == << vruntime[t], t >>

RtKeyLess(a, b) == a[1] < b[1] \/ (a[1] = b[1] /\ a[2] < b[2])
CfsKeyLess(a, b) == VrLess(a[1], b[1]) \/ (a[1] = b[1] /\ a[2] < b[2])

\* The last entry of the map, where pop_last would read
RtLast(q) == CHOOSE k \in q : \A o \in q : o = k \/ RtKeyLess(o, k)
RtFirst(q) == CHOOSE k \in q : \A o \in q : o = k \/ RtKeyLess(k, o)
CfsFirst(q) == CHOOSE k \in q : \A o \in q : o = k \/ CfsKeyLess(k, o)

QueueIds(q) == { k[2] : k \in q }
SeqIds(s) == { s[i] : i \in 1..Len(s) }

\* BTreeMap::pop_first: the map that is left (first: an entry read but not
\* removed, as first_key_value would)
pop_first_rest_mut(q, k) == q
pop_first_rest(q, k) == q \ {k}

\* ------------------------------------------------------------- frames
NoCb == [kind |-> "none", task |-> NoTask]
NoTimer == [id |-> 0, expires_at |-> 0, cb |-> NoCb]
Frame(pc) == [pc |-> pc, tick |-> 0, timer |-> NoTimer, delay |-> 0,
              cb |-> NoCb, ret |-> "", origin |-> "", start |-> 0, ms |-> 0,
              val |-> 0]

Top(t) == stack[t][Len(stack[t])]
At(p) == CURRENT_TASK # NoTask /\ Top(CURRENT_TASK).pc = p
SetTop(s, f) == [s EXCEPT ![Len(s)] = f]
Pop(s) == SubSeq(s, 1, Len(s) - 1)

\* ------------------------------------------------------------ context.rs
\* RFLAGS bit 9 (IF), and the RFLAGS image Context::new writes
RFLAGS_IF_BIT == 512
INITIAL_RFLAGS == 514

\* pushfq: the RFLAGS image of the CPU (bit 1 always reads 1); popfq: the
\* IF the CPU has after loading an image
pushfq(if) == 2 + (IF if THEN RFLAGS_IF_BIT ELSE 0)
popfq(image) == (image \div RFLAGS_IF_BIT) % 2 = 1

\* switch_context: or qword ptr [rsp], 0x200 on the image pushed by pushfq
\* (first: the image as pushed)
save_rflags_mut(image) == image
save_rflags(image) == IF popfq(image) THEN image ELSE image + RFLAGS_IF_BIT

\* Context::new: the stack image of a task that has not run yet
ContextNew == [rflags |-> INITIAL_RFLAGS, fresh |-> TRUE]

\* ------------------------------------------------------------------ Init
\* Task sets handed to add_task before the first schedule() call
Configs ==
  { << TaskNewRealtime(RT_PRIORITY_DEFAULT), TaskNewRealtime(10) >>,
    << TaskNewRealtime(RT_PRIORITY_DEFAULT), TaskNew(NICE_DEFAULT) >>,
    << TaskNew(NICE_MIN), TaskNew(NICE_MAX) >>,
    << TaskNew(NICE_DEFAULT), TaskNewIdle >> }

NiceConfigs ==
  { << TaskNew(NICE_MIN), TaskNew(NICE_MAX) >>,
    << TaskNew(NICE_MAX), TaskNew(NICE_MIN) >> }

\* The callback of the test timers of kernel_main_inner (a log line)
LogCb == [kind |-> "log", task |-> NoTask]

\* The ids of a set of tasks in the order try_add_task met them (ascending)
RECURSIVE InIdOrder(_)
InIdOrder(ids) ==
  IF ids = {} THEN << >>
  ELSE LET t == CHOOSE x \in ids : \A o \in ids : x <= o
       IN << t >> \o InIdOrder(ids \ {t})

\* register_timer(delays[i], log) for every i at tick 0, try_add_task for
\* every task, then the first schedule() (no current task: the boot context
\* is saved into DUMMY_CONTEXT and never resumed)
KernelBoot(cfgs, obs, delays) ==
  /\ task \in { [i \in 0..(Len(c) - 1) |-> c[i + 1]] : c \in cfgs }
  /\ vruntime = [t \in Tasks |-> VrZero]
  /\ LET rt == { RtKey(t) : t \in { u \in Tasks : task[u].sched_class = "Realtime" } }
         cfs == { CfsKey(t) : t \in { u \in Tasks : task[u].sched_class = "Normal" } }
         idle == { t \in Tasks : task[t].sched_class = "Idle" }
         first == IF rt # {} THEN RtFirst(rt)[2]
                  ELSE IF cfs # {} THEN CfsFirst(cfs)[2]
                  ELSE CHOOSE t \in idle : \A o \in idle : t <= o
         restIdle == idle \ {first}
     IN /\ CURRENT_TASK = first
        /\ RT_QUEUE = { k \in rt : k[2] # first }
        /\ CFS_QUEUE = { k \in cfs : k[2] # first }
        /\ IDLE_QUEUE = InIdOrder(restIdle)
        /\ state = [t \in Tasks |-> IF t = first THEN "Running" ELSE "Ready"]
  /\ BLOCKED_TASKS = {}
  /\ WAKEUP_PENDING = {}
  /\ NEED_RESCHED = FALSE
  /\ ACCUMULATED_RUNTIME = 0
  /\ TICK_COUNT = 0
  /\ TIMER_ID_COUNTER = Len(delays) + 1
  /\ SOFTIRQ_PENDING = FALSE
  /\ IN_SOFTIRQ = FALSE
  /\ TIMER_QUEUE = { [id |-> i, expires_at |-> delays[i], cb |-> LogCb] :
                       i \in 1..Len(delays) }
  /\ PENDING_QUEUE = << >>
  /\ RFLAGS_IF = TRUE
  /\ stack = [t \in Tasks |-> << Frame("run") >>]
  /\ next_task = NoTask
  /\ decided = "none"
  /\ registry = [i \in 1..Len(delays) |->
                   [delay |-> delays[i], regAt |-> 0, invoked |-> 0,
                    expires_at |-> delays[i], start |-> 0, ms |-> 0,
                    owner |-> NoTask]]
  /\ sleepTimer = [t \in Tasks |-> 0]
  /\ wait = [t \in Tasks |-> "no"]
  /\ dispatches = [t \in Tasks |-> 0]
  /\ observe = obs
  /\ opCount = 0
  /\ locked = FALSE
  /\ waiters = << >>
  /\ data = 0
  /\ guards = {}
  /\ updates = 0
  /\ context = [t \in Tasks |-> ContextNew]
  /\ held = << >>
  /\ code = [t \in Tasks |-> << >>]

InitBoot(cfgs, obs, delays) == KernelBoot(cfgs, obs, delays) /\ LibIdle

InitWith(cfgs, obs) == InitBoot(cfgs, obs, << >>)

Init == InitWith(Configs, FALSE)

\* ------------------------------------------------------------ schedule()
\* enqueue_task_single / enqueue_to_appropriate_queue: the three queues after
\* task t (with vruntime vr) has been inserted
EnqueueRt(q, t) ==
  IF task[t].sched_class = "Realtime" THEN q \cup { RtKey(t) } ELSE q
\* (first: the CFS key taken from the vruntime the task had when it was
\* dispatched)
EnqueueCfsStale(q, t, vr) ==
  IF task[t].sched_class = "Normal" THEN q \cup { << vruntime[t], t >> } ELSE q
EnqueueCfs(q, t, vr) ==
  IF task[t].sched_class = "Normal" THEN q \cup { << vr, t >> } ELSE q
EnqueueIdle(q, t) ==
  IF task[t].sched_class = "Idle" THEN Append(q, t) ELSE q

\* schedule(), cli and phase 1: pick the next task.  `ret` is where the
\* caller continues, `origin` tells a tick-driven call from a voluntary one.
\* (NEED_RESCHED and opCount are left to the caller.)
SchedulePick(ret, origin) ==
  LET me == CURRENT_TASK
      next == IF RT_QUEUE # {} THEN RtFirst(RT_QUEUE)[2]
              ELSE IF CFS_QUEUE # {} THEN CfsFirst(CFS_QUEUE)[2]
              ELSE IF IDLE_QUEUE # << >> THEN Head(IDLE_QUEUE)
              ELSE NoTask
      caller == [Top(me) EXCEPT !.pc = ret]
  IN /\ RT_QUEUE' = IF RT_QUEUE # {}
                    THEN pop_first_rest(RT_QUEUE, RtFirst(RT_QUEUE)) ELSE RT_QUEUE
     /\ CFS_QUEUE' = IF RT_QUEUE = {} /\ CFS_QUEUE # {}
                     THEN pop_first_rest(CFS_QUEUE, CfsFirst(CFS_QUEUE)) ELSE CFS_QUEUE
     /\ IDLE_QUEUE' = IF RT_QUEUE = {} /\ CFS_QUEUE = {} /\ IDLE_QUEUE # << >>
                      THEN Tail(IDLE_QUEUE) ELSE IDLE_QUEUE
     /\ IF next = NoTask
        THEN \* early return: sti
             /\ RFLAGS_IF' = TRUE
             /\ stack' = [stack EXCEPT ![me] = SetTop(@, caller)]
             /\ decided' = origin
             /\ UNCHANGED << state, next_task >>
        ELSE /\ RFLAGS_IF' = FALSE
             /\ state' = [state EXCEPT ![next] = "Running"]
             /\ next_task' = next
             /\ stack' = [stack EXCEPT ![me] =
                  Append(SetTop(@, caller), [Frame("sched_switch") EXCEPT !.origin = origin])]
             /\ decided' = "none"
     /\ UNCHANGED << task, libVars, lockVars, context, mutexVars, vruntime, CURRENT_TASK, BLOCKED_TASKS, WAKEUP_PENDING,
                     ACCUMULATED_RUNTIME, timerVars,
                     registry, sleepTimer, wait, dispatches, observe >>

\* schedule(): `let delta = if accumulated > 0 { accumulated } else { 1 }`
\* (first: the minimum charged whatever was accumulated)
charge_delta_mut(accumulated) == 1
charge_delta(accumulated) == IF accumulated > 0 THEN accumulated ELSE 1

\* schedule(), phases 2 and 3 and switch_context
ScheduleSwitch ==
  /\ At("sched_switch")
  /\ LET old == CURRENT_TASK
         next == next_task
         delta == charge_delta(ACCUMULATED_RUNTIME)
         vr == IF task[old].sched_class = "Normal"
               THEN update_vruntime(vruntime[old], task[old].weight, delta)
               ELSE vruntime[old]
         st == IF state[old] = "Running" THEN "Ready" ELSE state[old]
         resumed == IF Top(next).pc = "sched_saved" THEN Pop(stack[next]) ELSE stack[next]
     IN /\ ACCUMULATED_RUNTIME' = 0
        /\ vruntime' = [vruntime EXCEPT ![old] = vr]
        /\ state' = [state EXCEPT ![old] = st]
        /\ CURRENT_TASK' = next
        /\ BLOCKED_TASKS' = IF st = "Blocked" THEN BLOCKED_TASKS \cup {old} ELSE BLOCKED_TASKS
        /\ RT_QUEUE' = IF st \in {"Blocked", "Terminated"} THEN RT_QUEUE
                       ELSE EnqueueRt(RT_QUEUE, old)
        /\ CFS_QUEUE' = IF st \in {"Blocked", "Terminated"} THEN CFS_QUEUE
                        ELSE EnqueueCfs(CFS_QUEUE, old, vr)
        /\ IDLE_QUEUE' = IF st \in {"Blocked", "Terminated"} THEN IDLE_QUEUE
                         ELSE EnqueueIdle(IDLE_QUEUE, old)
        /\ stack' = [stack EXCEPT
                       ![old] = SetTop(@, [Top(old) EXCEPT !.pc = "sched_saved"]),
                       ![next] = resumed]
        /\ decided' = Top(old).origin
        /\ dispatches' = IF observe THEN [dispatches EXCEPT ![next] = @ + 1] ELSE dispatches
  /\ context' = [context EXCEPT ![CURRENT_TASK] =
                    [rflags |-> save_rflags(pushfq(RFLAGS_IF)), fresh |-> FALSE]]
  /\ RFLAGS_IF' = popfq(context[next_task].rflags)
  /\ next_task' = NoTask
  /\ UNCHANGED << task, libVars, lockVars, mutexVars, WAKEUP_PENDING, NEED_RESCHED, timerVars,
                  registry, sleepTimer, wait, observe, opCount >>

\* ---------------------------------------------------- blocking.rs
\* unblock_task(id), one critical section (without_interrupts)
UnblockTask(id) ==
  IF id \in BLOCKED_TASKS
  THEN /\ BLOCKED_TASKS' = BLOCKED_TASKS \ {id}
       /\ state' = [state EXCEPT ![id] = "Ready"]
       /\ RT_QUEUE' = EnqueueRt(RT_QUEUE, id)
       /\ CFS_QUEUE' = EnqueueCfs(CFS_QUEUE, id, vruntime[id])
       /\ IDLE_QUEUE' = EnqueueIdle(IDLE_QUEUE, id)
       /\ wait' = [wait EXCEPT ![id] = IF @ = "no" THEN "no" ELSE "woken"]
       /\ UNCHANGED WAKEUP_PENDING
  ELSE /\ WAKEUP_PENDING' = WAKEUP_PENDING \cup {id}
       /\ wait' = [wait EXCEPT ![id] = IF @ = "no" THEN "no" ELSE "woken"]
       /\ UNCHANGED << BLOCKED_TASKS, state, RT_QUEUE, CFS_QUEUE, IDLE_QUEUE >>

\* A task calls unblock_task(j) for another task (WaitQueue::wake_one)
Unblock(j) ==
  /\ At("run") /\ opCount < MaxOps
  /\ j # CURRENT_TASK
  /\ UnblockTask(j)
  /\ opCount' = opCount + 1
  /\ decided' = "none"
  /\ UNCHANGED << task, libVars, lockVars, context, mutexVars, vruntime, CURRENT_TASK, NEED_RESCHED, ACCUMULATED_RUNTIME,
                  timerVars, RFLAGS_IF, stack, next_task,
                  registry, sleepTimer, dispatches, observe >>

\* A task calls block_current_task() (WaitQueue::wait)
BlockCurrentTask ==
  /\ At("run") /\ opCount < MaxOps
  /\ stack' = [stack EXCEPT ![CURRENT_TASK] = SetTop(@, [Top(CURRENT_TASK) EXCEPT !.pc = "block"])]
  /\ wait' = [wait EXCEPT ![CURRENT_TASK] = "entered"]
  /\ opCount' = opCount + 1
  /\ decided' = "none"
  /\ UNCHANGED << task, libVars, lockVars, context, mutexVars, schedVars, WAKEUP_PENDING, NEED_RESCHED, timerVars,
                  RFLAGS_IF, registry, sleepTimer, observe >>

\* block_current_task(): the critical section on WAKEUP_PENDING and CURRENT_TASK
BlockEnter ==
  /\ At("block")
  /\ LET me == CURRENT_TASK
         pending == me \in WAKEUP_PENDING
     IN /\ WAKEUP_PENDING' = WAKEUP_PENDING \ {me}
        /\ state' = IF pending THEN state ELSE [state EXCEPT ![me] = "Blocked"]
        /\ stack' = [stack EXCEPT ![me] =
             SetTop(@, [Top(me) EXCEPT !.pc = IF pending THEN "block_ret" ELSE "block_sched"])]
  /\ decided' = "none"
  /\ UNCHANGED << task, libVars, lockVars, context, mutexVars, vruntime, CURRENT_TASK, RT_QUEUE, CFS_QUEUE, IDLE_QUEUE,
                  BLOCKED_TASKS, NEED_RESCHED, ACCUMULATED_RUNTIME, timerVars,
                  RFLAGS_IF, next_task, registry, sleepTimer, wait, dispatches,
                  observe, opCount >>

\* block_current_task(): should_block, so schedule()
BlockSchedule ==
  /\ At("block_sched")
  /\ SchedulePick("block_ret", "call")
  /\ UNCHANGED << NEED_RESCHED, opCount >>

\* block_current_task() returns to its caller (sleep_ms returns with it;
\* BlockingMutex::lock goes round its loop)
BlockReturn ==
  /\ At("block_ret")
  /\ stack' = [stack EXCEPT ![CURRENT_TASK] = SetTop(@,
        Frame(IF Top(CURRENT_TASK).ret = "mx_lock" THEN "mx_lock" ELSE "run"))]
  /\ wait' = [wait EXCEPT ![CURRENT_TASK] = "no"]
  /\ sleepTimer' = [sleepTimer EXCEPT ![CURRENT_TASK] = 0]
  /\ decided' = "none"
  /\ UNCHANGED << task, libVars, lockVars, context, mutexVars, schedVars, WAKEUP_PENDING, NEED_RESCHED, timerVars,
                  RFLAGS_IF, registry, observe, opCount >>

\* yield_now()
YieldNow ==
  /\ At("run") /\ opCount < MaxOps
  /\ SchedulePick("run", "call")
  /\ opCount' = opCount + 1
  /\ UNCHANGED NEED_RESCHED

SleepMsValues == {0, 10}

\* sleep_ms: `if ms == 0 { yield_now(); return; }`
sleep_ms_yields_mut(ms) == FALSE
sleep_ms_yields(ms) == ms = 0

\* sleep_ms(ms): yield_now() for 0, else register_timer(max(ticks, 1), wake self)
\* followed by block_current_task()
SleepMs(ms) ==
  /\ At("run") /\ opCount < MaxOps
  /\ opCount' = opCount + 1
  /\ UNCHANGED NEED_RESCHED
  /\ IF sleep_ms_yields(ms)
     THEN SchedulePick("run", "call")
     ELSE /\ stack' = [stack EXCEPT ![CURRENT_TASK] = SetTop(@,
                [Frame("timer_new") EXCEPT
                   !.delay = Max2(ms_to_ticks(ms), 1),
                   !.cb = [kind |-> "wake", task |-> CURRENT_TASK],
                   !.ret = "block",
                   !.start = TICK_COUNT, !.ms = ms])]
          /\ decided' = "none"
          /\ UNCHANGED << task, libVars, lockVars, context, mutexVars, schedVars, WAKEUP_PENDING, timerVars,
                          RFLAGS_IF, registry, sleepTimer, wait, observe >>

\* ------------------------------------------------ sync/blocking_mutex.rs
\* locked.compare_exchange(false, true).is_ok() (first: the exchange made
\* without the comparison, as swap would)
compare_exchange_ok_mut(cur) == TRUE
compare_exchange_ok(cur) == cur = FALSE

\* A task calls BlockingMutex::lock() or try_lock() to add 1 to the value
MutexLock ==
  /\ At("run") /\ opCount < MaxOps
  /\ opCount' = opCount + 1
  /\ \E p \in {"mx_lock", "mx_try"} :
       stack' = [stack EXCEPT ![CURRENT_TASK] = SetTop(@, Frame(p))]
  /\ decided' = "none"
  /\ UNCHANGED << task, libVars, lockVars, context, mutexVars, schedVars, WAKEUP_PENDING, NEED_RESCHED, timerVars,
                  RFLAGS_IF, registry, sleepTimer, wait, observe >>

\* lock() / try_lock(): the compare_exchange; on failure try_lock returns
\* None and lock goes to wait_queue.wait() (task context: interrupts are on)
MutexCas ==
  /\ At("mx_lock") \/ At("mx_try")
  /\ LET me == CURRENT_TASK
         ok == compare_exchange_ok(locked)
     IN /\ locked' = IF ok THEN TRUE ELSE locked
        /\ guards' = IF ok THEN guards \cup {me} ELSE guards
        /\ stack' = [stack EXCEPT ![me] = SetTop(@,
              Frame(IF ok THEN "mx_read"
                    ELSE IF Top(me).pc = "mx_try" THEN "run" ELSE "mx_wait"))]
  /\ decided' = "none"
  /\ UNCHANGED << task, libVars, lockVars, context, waiters, data, updates, schedVars, WAKEUP_PENDING,
                  NEED_RESCHED, timerVars, RFLAGS_IF, registry, sleepTimer, wait,
                  observe, opCount >>

\* WaitQueue::wait(): push the task id under without_interrupts, then
\* block_current_task()
MutexWait ==
  /\ At("mx_wait")
  /\ waiters' = Append(waiters, CURRENT_TASK)
  /\ stack' = [stack EXCEPT ![CURRENT_TASK] =
                  SetTop(@, [Frame("block") EXCEPT !.ret = "mx_lock"])]
  /\ decided' = "none"
  /\ UNCHANGED << task, libVars, lockVars, context, locked, data, guards, updates, schedVars, WAKEUP_PENDING,
                  NEED_RESCHED, timerVars, RFLAGS_IF, registry, sleepTimer, wait,
                  observe, opCount >>

\* MutexGuard::deref: read the value
MutexRead ==
  /\ At("mx_read")
  /\ stack' = [stack EXCEPT ![CURRENT_TASK] =
                  SetTop(@, [Frame("mx_write") EXCEPT !.val = data])]
  /\ decided' = "none"
  /\ UNCHANGED << task, libVars, lockVars, context, mutexVars, schedVars, WAKEUP_PENDING, NEED_RESCHED, timerVars,
                  RFLAGS_IF, registry, sleepTimer, wait, observe, opCount >>

\* MutexGuard::deref_mut: write the value read plus 1
MutexWrite ==
  /\ At("mx_write")
  /\ data' = Top(CURRENT_TASK).val + 1
  /\ updates' = updates + 1
  /\ stack' = [stack EXCEPT ![CURRENT_TASK] = SetTop(@, Frame("mx_drop"))]
  /\ decided' = "none"
  /\ UNCHANGED << task, libVars, lockVars, context, locked, waiters, guards, schedVars, WAKEUP_PENDING,
                  NEED_RESCHED, timerVars, RFLAGS_IF, registry, sleepTimer, wait,
                  observe, opCount >>

\* MutexGuard::drop: locked.store(false)
MutexDrop ==
  /\ At("mx_drop")
  /\ locked' = FALSE
  /\ guards' = guards \ {CURRENT_TASK}
  /\ stack' = [stack EXCEPT ![CURRENT_TASK] = SetTop(@, Frame("mx_wake"))]
  /\ decided' = "none"
  /\ UNCHANGED << task, libVars, lockVars, context, waiters, data, updates, schedVars, WAKEUP_PENDING,
                  NEED_RESCHED, timerVars, RFLAGS_IF, registry, sleepTimer, wait,
                  observe, opCount >>

\* MutexGuard::drop: wait_queue.wake_one(): pop_front, unblock_task
MutexWake ==
  /\ At("mx_wake")
  /\ IF waiters # << >>
     THEN /\ waiters' = Tail(waiters)
          /\ UnblockTask(Head(waiters))
     ELSE UNCHANGED << waiters, wakeVars >>
  /\ stack' = [stack EXCEPT ![CURRENT_TASK] = SetTop(@, Frame("run"))]
  /\ decided' = "none"
  /\ UNCHANGED << task, libVars, lockVars, context, locked, data, guards, updates, vruntime, CURRENT_TASK,
                  NEED_RESCHED, ACCUMULATED_RUNTIME, timerVars, RFLAGS_IF,
                  next_task, registry, sleepTimer, dispatches, observe, opCount >>

\* ---------------------------------------------------------- timer.rs
TimerDelays == {0, 1}

\* A task calls register_timer(d, cb) with a callback that wakes nobody
RegisterTimer(d) ==
  /\ At("run") /\ opCount < MaxOps
  /\ opCount' = opCount + 1
  /\ stack' = [stack EXCEPT ![CURRENT_TASK] = SetTop(@,
        [Frame("timer_new") EXCEPT !.delay = d,
                                   !.cb = LogCb,
                                   !.ret = "run"])]
  /\ decided' = "none"
  /\ UNCHANGED << task, libVars, lockVars, context, mutexVars, schedVars, WAKEUP_PENDING, NEED_RESCHED, timerVars,
                  RFLAGS_IF, registry, sleepTimer, wait, observe >>

\* Timer::new: take an id, expires_at = current_tick() + delay_ticks
TimerNew ==
  /\ At("timer_new")
  /\ LET me == CURRENT_TASK
         f == Top(me)
         t == [id |-> TIMER_ID_COUNTER, expires_at |-> TICK_COUNT + f.delay, cb |-> f.cb]
     IN /\ stack' = [stack EXCEPT ![me] = SetTop(@, [f EXCEPT !.pc = "timer_push", !.timer = t])]
        /\ registry' = Append(registry,
             [delay |-> f.delay, regAt |-> 0 - 1, invoked |-> 0,
              expires_at |-> t.expires_at, start |-> f.start, ms |-> f.ms,
              owner |-> f.cb.task])
        /\ sleepTimer' = IF f.ret = "block"
                         THEN [sleepTimer EXCEPT ![me] = TIMER_ID_COUNTER] ELSE sleepTimer
  /\ TIMER_ID_COUNTER' = TIMER_ID_COUNTER + 1
  /\ decided' = "none"
  /\ UNCHANGED << task, libVars, lockVars, context, mutexVars, schedVars, WAKEUP_PENDING, NEED_RESCHED, TICK_COUNT,
                  SOFTIRQ_PENDING, IN_SOFTIRQ, TIMER_QUEUE, PENDING_QUEUE,
                  RFLAGS_IF, wait, observe, opCount >>

\* register_timer: push under cli, return; sleep_ms goes on to block_current_task
TimerPush ==
  /\ At("timer_push")
  /\ LET me == CURRENT_TASK
         f == Top(me)
     IN /\ TIMER_QUEUE' = TIMER_QUEUE \cup { f.timer }
        /\ registry' = [registry EXCEPT ![f.timer.id].regAt = TICK_COUNT]
        /\ stack' = [stack EXCEPT ![me] = SetTop(@, Frame(f.ret))]
        /\ wait' = IF f.ret = "block" THEN [wait EXCEPT ![me] = "entered"] ELSE wait
  /\ decided' = "none"
  /\ UNCHANGED << task, libVars, lockVars, context, mutexVars, schedVars, WAKEUP_PENDING, NEED_RESCHED, TICK_COUNT,
                  TIMER_ID_COUNTER, SOFTIRQ_PENDING, IN_SOFTIRQ, PENDING_QUEUE,
                  RFLAGS_IF, sleepTimer, observe, opCount >>

\* The orders in which BinaryHeap::pop can return the timers of S: by
\* expires_at, timers with equal expires_at in any order
RECURSIVE ExpiryOrders(_)
ExpiryOrders(S) ==
  IF S = {} THEN { << >> }
  ELSE UNION { { << t >> \o rest : rest \in ExpiryOrders(S \ {t}) } :
               t \in { u \in S : \A o \in S : u.expires_at <= o.expires_at } }

\* check_timers(): the timers that move to PENDING_QUEUE at tick `current`
Expired(queue, current) == { t \in queue : t.expires_at <= current }

\* VecDeque::pop_front: the queue that is left (first: an entry read but
\* not removed, as front would)
pop_front_rest_mut(q) == q
pop_front_rest(q) == Tail(q)

\* do_softirq(): where the call goes on after IN_SOFTIRQ.swap(true) returned
\* `was` (first: the returned value ignored)
softirq_entry_mut(was) == "softirq_loop"
softirq_entry(was) == IF was THEN "softirq_ret" ELSE "softirq_loop"

\* ------------------------------------------------- timer interrupt path
\* check_timers: `if has_pending { raise_softirq(); }`, the value of
\* SOFTIRQ_PENDING afterwards (first: the flag left as it was)
raise_softirq_mut(has_pending, flag) == flag
raise_softirq(has_pending, flag) == IF has_pending THEN TRUE ELSE flag

\* timer_interrupt_handler entry and timer_handler_inner: increment_tick,
\* check_timers, update_current_task_vruntime, set_need_resched, EOI
Tick(limit) ==
  /\ RFLAGS_IF /\ CURRENT_TASK # NoTask
  /\ TICK_COUNT < limit
  /\ LET now == TICK_COUNT + 1
         due == Expired(TIMER_QUEUE, now)
     IN /\ TICK_COUNT' = now
        /\ TIMER_QUEUE' = TIMER_QUEUE \ due
        /\ \E order \in ExpiryOrders(due) : PENDING_QUEUE' = PENDING_QUEUE \o order
        /\ SOFTIRQ_PENDING' = raise_softirq(due # {}, SOFTIRQ_PENDING)
        /\ stack' = [stack EXCEPT ![CURRENT_TASK] =
                        Append(@, [Frame("irq_exit") EXCEPT !.tick = now])]
  /\ ACCUMULATED_RUNTIME' = ACCUMULATED_RUNTIME + TIMER_PERIOD_NS
  /\ NEED_RESCHED' = TRUE
  /\ RFLAGS_IF' = FALSE
  /\ decided' = "none"
  /\ UNCHANGED << task, libVars, lockVars, context, mutexVars, state, vruntime, CURRENT_TASK, RT_QUEUE, CFS_QUEUE, IDLE_QUEUE,
                  BLOCKED_TASKS, WAKEUP_PENDING, TIMER_ID_COUNTER, IN_SOFTIRQ,
                  next_task, registry, sleepTimer, wait, dispatches, observe, opCount >>

\* The current task's top frame moves to pc p, nothing else changes but
\* what the caller names
Goto(p) ==
  stack' = [stack EXCEPT ![CURRENT_TASK] = SetTop(@, [Top(CURRENT_TASK) EXCEPT !.pc = p])]

\* check_resched_on_interrupt_exit, step 1: softirq_pending() ? sti : skip
IrqExit ==
  /\ At("irq_exit")
  /\ IF SOFTIRQ_PENDING
     THEN Goto("do_softirq") /\ RFLAGS_IF' = TRUE
     ELSE Goto("irq_resched") /\ UNCHANGED RFLAGS_IF
  /\ decided' = "none"
  /\ UNCHANGED << task, libVars, lockVars, context, mutexVars, schedVars, WAKEUP_PENDING, NEED_RESCHED, timerVars,
                  registry, sleepTimer, wait, observe, opCount >>

\* do_softirq(): IN_SOFTIRQ.swap(true), return at once when it was set
DoSoftirq ==
  /\ At("do_softirq")
  /\ IN_SOFTIRQ' = TRUE
  /\ Goto(softirq_entry(IN_SOFTIRQ))
  /\ decided' = "none"
  /\ UNCHANGED << task, libVars, lockVars, context, mutexVars, schedVars, WAKEUP_PENDING, NEED_RESCHED, TICK_COUNT,
                  TIMER_ID_COUNTER, SOFTIRQ_PENDING, TIMER_QUEUE, PENDING_QUEUE,
                  RFLAGS_IF, registry, sleepTimer, wait, observe, opCount >>

\* do_softirq(): while SOFTIRQ_PENDING.swap(false)
SoftirqLoop ==
  /\ At("softirq_loop")
  /\ SOFTIRQ_PENDING' = FALSE
  /\ Goto(IF SOFTIRQ_PENDING THEN "ppt" ELSE "softirq_clear")
  /\ decided' = "none"
  /\ UNCHANGED << task, libVars, lockVars, context, mutexVars, schedVars, WAKEUP_PENDING, NEED_RESCHED, TICK_COUNT,
                  TIMER_ID_COUNTER, IN_SOFTIRQ, TIMER_QUEUE, PENDING_QUEUE,
                  RFLAGS_IF, registry, sleepTimer, wait, observe, opCount >>

\* A task (the kernel main loop) calls process_pending_timers() directly
ProcessPendingTimers ==
  /\ At("run") /\ opCount < MaxOps
  /\ opCount' = opCount + 1
  /\ stack' = [stack EXCEPT ![CURRENT_TASK] =
                  SetTop(@, [Frame("ppt") EXCEPT !.ret = "run"])]
  /\ decided' = "none"
  /\ UNCHANGED << task, libVars, lockVars, context, mutexVars, schedVars, WAKEUP_PENDING, NEED_RESCHED, timerVars,
                  RFLAGS_IF, registry, sleepTimer, wait, observe >>

\* process_pending_timers(): pop_front under cli; an empty queue ends the
\* loop and the call returns (to do_softirq's loop or to the calling task)
PptPop ==
  /\ At("ppt")
  /\ IF PENDING_QUEUE # << >>
     THEN /\ PENDING_QUEUE' = pop_front_rest(PENDING_QUEUE)
          /\ stack' = [stack EXCEPT ![CURRENT_TASK] = SetTop(@,
               [Top(CURRENT_TASK) EXCEPT !.pc = "ppt_cb", !.timer = Head(PENDING_QUEUE)])]
     ELSE /\ IF Top(CURRENT_TASK).ret = "run"
             THEN stack' = [stack EXCEPT ![CURRENT_TASK] = SetTop(@, Frame("run"))]
             ELSE Goto("softirq_loop")
          /\ UNCHANGED PENDING_QUEUE
  /\ decided' = "none"
  /\ UNCHANGED << task, libVars, lockVars, context, mutexVars, schedVars, WAKEUP_PENDING, NEED_RESCHED, TICK_COUNT,
                  TIMER_ID_COUNTER, SOFTIRQ_PENDING, IN_SOFTIRQ, TIMER_QUEUE,
                  RFLAGS_IF, registry, sleepTimer, wait, observe, opCount >>

\* process_pending_timers(): timer.callback.take() and the call
PptCallback ==
  /\ At("ppt_cb")
  /\ LET f == Top(CURRENT_TASK)
     IN /\ IF f.timer.cb.kind = "wake"
           THEN UnblockTask(f.timer.cb.task)
           ELSE UNCHANGED wakeVars
        /\ registry' = [registry EXCEPT ![f.timer.id].invoked = @ + 1]
        /\ stack' = [stack EXCEPT ![CURRENT_TASK] =
                        SetTop(@, [f EXCEPT !.pc = "ppt", !.timer = NoTimer])]
  /\ decided' = "none"
  /\ UNCHANGED << task, libVars, lockVars, context, mutexVars, vruntime, CURRENT_TASK, NEED_RESCHED, ACCUMULATED_RUNTIME,
                  timerVars, RFLAGS_IF, next_task, sleepTimer, dispatches,
                  observe, opCount >>

\* do_softirq(): IN_SOFTIRQ.store(false)
SoftirqClear ==
  /\ At("softirq_clear")
  /\ IN_SOFTIRQ' = FALSE
  /\ Goto("softirq_ret")
  /\ decided' = "none"
  /\ UNCHANGED << task, libVars, lockVars, context, mutexVars, schedVars, WAKEUP_PENDING, NEED_RESCHED, TICK_COUNT,
                  TIMER_ID_COUNTER, SOFTIRQ_PENDING, TIMER_QUEUE, PENDING_QUEUE,
                  RFLAGS_IF, registry, sleepTimer, wait, observe, opCount >>

\* check_resched_on_interrupt_exit: cli after do_softirq() has returned
SoftirqReturn ==
  /\ At("softirq_ret")
  /\ RFLAGS_IF' = FALSE
  /\ Goto("irq_resched")
  /\ decided' = "none"
  /\ UNCHANGED << task, libVars, lockVars, context, mutexVars, schedVars, WAKEUP_PENDING, NEED_RESCHED, timerVars,
                  registry, sleepTimer, wait, observe, opCount >>

\* check_resched_on_interrupt_exit, step 2: NEED_RESCHED.swap(false) and
\* schedule(); without it the stub's iretq follows with interrupts still off
IrqResched ==
  /\ At("irq_resched")
  /\ NEED_RESCHED' = FALSE
  /\ IF NEED_RESCHED
     THEN SchedulePick("iret", "tick")
     ELSE /\ stack' = [stack EXCEPT ![CURRENT_TASK] = Pop(@)]
          /\ RFLAGS_IF' = TRUE
          /\ decided' = "none"
          /\ UNCHANGED << task, libVars, lockVars, context, mutexVars, schedVars, WAKEUP_PENDING, timerVars,
                          registry, sleepTimer, wait, observe >>
  /\ UNCHANGED opCount

\* iretq of the interrupt stub after schedule() has returned
Iret ==
  /\ At("iret")
  /\ stack' = [stack EXCEPT ![CURRENT_TASK] = Pop(@)]
  /\ RFLAGS_IF' = TRUE
  /\ decided' = "none"
  /\ UNCHANGED << task, libVars, lockVars, context, mutexVars, schedVars, WAKEUP_PENDING, NEED_RESCHED, timerVars,
                  registry, sleepTimer, wait, observe, opCount >>

\* ------------------------------------------------------------ behaviours
\* What the tasks do
TaskCall ==
  \/ YieldNow
  \/ \E ms \in SleepMsValues : SleepMs(ms)
  \/ BlockCurrentTask
  \/ \E j \in Tasks : Unblock(j)
  \/ \E d \in TimerDelays : RegisterTimer(d)

\* The steps that follow from a call or an interrupt
Step ==
  \/ TimerNew
  \/ TimerPush
  \/ BlockEnter
  \/ BlockSchedule
  \/ BlockReturn
  \/ ScheduleSwitch
  \/ IrqExit
  \/ DoSoftirq
  \/ SoftirqLoop
  \/ PptPop
  \/ PptCallback
  \/ SoftirqClear
  \/ SoftirqReturn
  \/ IrqResched
  \/ Iret

Next == TaskCall \/ Step \/ Tick(MaxTicks)

Spec == Init /\ [][Next]_vars

\* The same kernel over one more tick, with tasks that only sleep and
\* register timers
DeepNext ==
  \/ \E ms \in SleepMsValues \ {0} : SleepMs(ms)
  \/ \E d \in TimerDelays : RegisterTimer(d)
  \/ Step
  \/ Tick(DeepTicks)

DeepSpec == Init /\ [][DeepNext]_vars

\* The kernel with the test timers of kernel_main_inner registered at boot
\* (delays scaled to ticks), tasks that sleep, register timers and run the
\* main loop's process_pending_timers()
TimerTicks == 2
TimerOps == 1
BootTimers == << 1, 2 >>
TimerSleepMs == {10, 15}

TimerInit == InitBoot(Configs, FALSE, BootTimers)

TimerNext ==
  \/ opCount < TimerOps /\ ProcessPendingTimers
  \/ opCount < TimerOps /\ \E ms \in TimerSleepMs : SleepMs(ms)
  \/ opCount < TimerOps /\ \E d \in TimerDelays : RegisterTimer(d)
  \/ Step
  \/ Tick(TimerTicks)

TimerSpec == TimerInit /\ [][TimerNext]_vars

\* Tasks that take the BlockingMutex, by lock() or try_lock(), to add 1 to
\* the value it protects
MutexStep ==
  \/ MutexCas
  \/ MutexWait
  \/ MutexRead
  \/ MutexWrite
  \/ MutexDrop
  \/ MutexWake

\* The steps of block_current_task, schedule() and the interrupt exit when
\* no timer is registered
SchedStep ==
  \/ BlockEnter
  \/ BlockSchedule
  \/ BlockReturn
  \/ ScheduleSwitch
  \/ IrqExit
  \/ IrqResched
  \/ Iret

MutexNext == MutexLock \/ MutexStep \/ SchedStep \/ Tick(MaxTicks)

MutexSpec == Init /\ [][MutexNext]_vars

\* One sleep_ms call by the task that runs first, the other task runnable
\* throughout
SleepOnce == opCount = 0 /\ \E ms \in TimerSleepMs : SleepMs(ms)

SleepNext == SleepOnce \/ Step \/ Tick(MaxTicks)

SleepSpec == Init /\ [][SleepNext]_vars

\* A tick that interrupts task code (the previous tick's handler has
\* returned to the task it resumed)
TickInTask(limit) == At("run") /\ Tick(limit)

\* Two Normal tasks, nice MIN and nice MAX, that never block or yield:
\* only timer ticks, one period apart, drive the scheduler
NiceInit == InitWith(NiceConfigs, TRUE)

NiceNext ==
  \/ TickInTask(NiceTicks)
  \/ IrqExit
  \/ IrqResched
  \/ ScheduleSwitch
  \/ Iret

NiceSpec == NiceInit /\ [][NiceNext]_vars

\* ---------------------------------------------------------------- claims
InRt(t) == Cardinality({ k \in RT_QUEUE : k[2] = t })
InCfs(t) == Cardinality({ k \in CFS_QUEUE : k[2] = t })
InIdle(t) == Cardinality({ i \in 1..Len(IDLE_QUEUE) : IDLE_QUEUE[i] = t })
Places(t) ==
  (IF CURRENT_TASK = t THEN 1 ELSE 0) + InRt(t) + InCfs(t) + InIdle(t)
  + (IF t \in BLOCKED_TASKS THEN 1 ELSE 0)
Class(t) == task[t].sched_class

\* C1: a wake-up sent to a task after it entered block_current_task() is
\* never lost: the task is not left parked in BLOCKED_TASKS with that wake-up
\* already delivered.
C1_WakeNeverLost ==
  \A t \in Tasks : wait[t] = "woken" => t \notin BLOCKED_TASKS

\* C2: no task id is at once a key of BLOCKED_TASKS and a member of
\* WAKEUP_PENDING.
C2_NoBlockedWithPendingWake == BLOCKED_TASKS \cap WAKEUP_PENDING = {}

\* C3: sleep_ms(ms > 0) returns on expiry: once the timer of a sleep_ms call
\* has fired, its caller is not parked in BLOCKED_TASKS (where only a wake-up
\* from some other task could still end the call).
C3_SleepReturnsOnExpiry ==
  \A t \in Tasks :
    (sleepTimer[t] # 0 /\ registry[sleepTimer[t]].invoked > 0) => t \notin BLOCKED_TASKS

\* C4: after the scheduling decision of a tick, no Realtime task waits in
\* RT_QUEUE while a Normal or Idle task is current, and no Normal task waits
\* in CFS_QUEUE while an Idle task is current.
C4_ClassPriorityAfterTick ==
  decided = "tick" =>
    /\ RT_QUEUE # {} => Class(CURRENT_TASK) = "Realtime"
    /\ CFS_QUEUE # {} => Class(CURRENT_TASK) \in {"Realtime", "Normal"}

\* C5: whenever interrupts are enabled, every task is in exactly one of
\* CURRENT_TASK, RT_QUEUE, CFS_QUEUE, IDLE_QUEUE, BLOCKED_TASKS, or has been
\* dropped as Terminated.
C5_ExactlyOnePlace ==
  RFLAGS_IF =>
    \A t \in Tasks :
      Places(t) + (IF state[t] = "Terminated" /\ Places(t) = 0 THEN 1 ELSE 0) = 1

\* C5 witness: interrupts are enabled right after a schedule() that parked
\* the outgoing task in BLOCKED_TASKS and dispatched a task from a queue.
C5_Witness ==
  /\ RFLAGS_IF /\ decided # "none"
  /\ BLOCKED_TASKS # {}
  /\ CURRENT_TASK \notin BLOCKED_TASKS

\* C6: whenever the current task is outside block_current_task() and
\* schedule(), exactly one task has state Running and it is CURRENT_TASK.
C6_ExactlyOneRunning ==
  (RFLAGS_IF /\ At("run")) =>
    { t \in Tasks : state[t] = "Running" } = { CURRENT_TASK }

\* C7: after a scheduling decision that leaves a Normal task current, no task
\* in CFS_QUEUE has a strictly smaller vruntime than the current task.
C7_SmallestVruntimeRuns ==
  (decided # "none" /\ Class(CURRENT_TASK) = "Normal") =>
    \A k \in CFS_QUEUE : ~VrLess(k[1], vruntime[CURRENT_TASK])

\* C8: after a scheduling decision that leaves a Realtime task current, no
\* task in RT_QUEUE has a strictly higher rt_priority than the current task.
C8_HighestRtPriorityRuns ==
  (decided # "none" /\ Class(CURRENT_TASK) = "Realtime") =>
    \A k \in RT_QUEUE : task[k[2]].rt_priority <= task[CURRENT_TASK].rt_priority

\* C9: once the scheduling decision of tick 10^4 is made, the nice = MIN task
\* has been dispatched strictly more often than the nice = MAX task.
C9_NiceMinDispatchedMore ==
  (TICK_COUNT = NiceTicks /\ decided = "tick") =>
    \A a, b \in Tasks :
      (task[a].nice = NICE_MIN /\ task[b].nice = NICE_MAX) => dispatches[a] > dispatches[b]

\* The interrupt handlers still on some stack that serve a tick later than n
HandlersAfter(n) ==
  { << t, i >> \in Tasks \X (1..(DeepTicks + 4)) :
      i <= Len(stack[t]) /\ stack[t][i].tick > n }

\* C10: once d + 1 ticks have arrived after register_timer(d, cb) returned and
\* every one of them has been handled up to its iretq, cb has been invoked.
C10_CallbackAfterTicks ==
  \A id \in DOMAIN registry :
    ( /\ registry[id].regAt >= 0
      /\ TICK_COUNT >= registry[id].regAt + registry[id].delay + 1
      /\ HandlersAfter(registry[id].regAt) = {} )
    => registry[id].invoked >= 1

\* The frames of all kernel stacks, as <<task, index>>
AllFrames == UNION { { << t, i >> : i \in 1..Len(stack[t]) } : t \in Tasks }
FrameOf(x) == stack[x[1]][x[2]]

\* The frames inside process_pending_timers() called by the main loop, and
\* the frames inside the drain of a do_softirq() call
MainPptFrames ==
  { x \in AllFrames : FrameOf(x).pc \in {"ppt", "ppt_cb"} /\ FrameOf(x).ret = "run" }
DrainFrames ==
  { x \in AllFrames : \/ FrameOf(x).pc \in {"softirq_loop", "softirq_clear"}
                      \/ FrameOf(x).pc \in {"ppt", "ppt_cb"} /\ FrameOf(x).ret # "run" }

\* C11: no timer callback is invoked more than once, whether the tick
\* handler's do_softirq or the main loop's process_pending_timers pops it.
C11_CallbackAtMostOnce ==
  \A id \in DOMAIN registry : registry[id].invoked <= 1

\* C11 witness: a callback has been invoked while a do_softirq drain and a
\* main-loop process_pending_timers call are both in progress.
C11_Witness ==
  /\ \E id \in DOMAIN registry : registry[id].invoked = 1
  /\ MainPptFrames # {}
  /\ DrainFrames # {}

\* C12: BlockingMutex gives mutual exclusion: at most one MutexGuard exists
\* at any time, locked is set exactly while one exists, and no increment made
\* under the guard is lost or applied twice.
C12_MutualExclusion ==
  /\ Cardinality(guards) <= 1
  /\ locked = (guards # {})
  /\ data = updates

\* C12 witness: a task owns the guard and has read the value, while another
\* task, whose lock() failed, is queued in the wait queue.
C12_Witness ==
  /\ \E t \in guards : \E i \in 1..Len(stack[t]) : stack[t][i].pc = "mx_write"
  /\ \E w \in Tasks \ guards : w \in SeqIds(waiters)

\* The scheduler's state: who runs, who waits where, who has a wake pending
placeVars == << state, CURRENT_TASK, RT_QUEUE, CFS_QUEUE, IDLE_QUEUE,
                BLOCKED_TASKS, WAKEUP_PENDING >>

\* A timer whose callback wakes task j has fired
SleepTimerFired(j) ==
  \E id \in DOMAIN registry : registry[id].owner = j /\ registry[id].invoked >= 1

\* C13: an unblock_task(j) that arrives when j has been woken by its sleep
\* timer, has left BLOCKED_TASKS and is not waiting in block_current_task is
\* a no-op: it changes no scheduler state.
C13_LateWakeIsNoOp ==
  [][ \A j \in Tasks :
        ( /\ Unblock(j)
          /\ SleepTimerFired(j)
          /\ j \notin BLOCKED_TASKS
          /\ wait[j] # "entered" )
        => UNCHANGED placeVars ]_vars

\* ceil(ms * freq_hz / 1000)
CeilTicks(ms) == (ms * TIMER_FREQUENCY_HZ + 999) \div 1000

\* C14: a sleep_ms(ms) call with ms > 0 made at tick `start` does not return
\* to its caller before the tick counter has reached
\* start + ceil(ms * freq_hz / 1000).
C14_SleepNotShorter ==
  \A t \in Tasks :
    (t = CURRENT_TASK /\ sleepTimer[t] # 0 /\ Top(t).pc = "block_ret")
    => TICK_COUNT >= registry[sleepTimer[t]].start
                     + CeilTicks(registry[sleepTimer[t]].ms)

\* C15: the re-entrance guard of do_softirq holds: at most one do_softirq
\* call is inside its drain at any time (so a call made by a nested interrupt
\* during a drain invokes no callback), and IN_SOFTIRQ is set while one is.
C15_SoftirqNotReentered ==
  /\ Cardinality(DrainFrames) <= 1
  /\ DrainFrames # {} => IN_SOFTIRQ

\* C15 witness: while a drain is in progress, the do_softirq call of a
\* nested timer interrupt has returned at once.
C15_Witness ==
  /\ DrainFrames # {}
  /\ \E x \in AllFrames : FrameOf(x).pc = "softirq_ret"

\* C16: timer callbacks run in expiry order: when timer A was in TIMER_QUEUE
\* before the expiry tick of timer B and expires strictly earlier than B,
\* B's callback is not invoked while A's has not been.
C16_ExpiryOrder ==
  \A a, b \in DOMAIN registry :
    ( /\ registry[a].regAt >= 0
      /\ registry[a].regAt < registry[b].expires_at
      /\ registry[a].expires_at < registry[b].expires_at
      /\ registry[b].invoked >= 1 )
    => registry[a].invoked >= 1

\* C17: a Realtime task that sleeps via sleep_ms while every other task is
\* Normal or Idle is dispatched within 2 ticks of its timer's expiry tick:
\* once its callback has run, tick expiry + 2 has arrived and the running
\* task has left every interrupt handler, the sleeper is not parked in
\* BLOCKED_TASKS.
C17_RealtimeWakeLag ==
  \A t \in Tasks :
    ( /\ Class(t) = "Realtime"
      /\ \A o \in Tasks \ {t} : Class(o) # "Realtime"
      /\ sleepTimer[t] # 0
      /\ registry[sleepTimer[t]].invoked >= 1
      /\ TICK_COUNT >= registry[sleepTimer[t]].expires_at + 2
      /\ \A i \in 1..Len(stack[CURRENT_TASK]) : stack[CURRENT_TASK][i].tick = 0 )
    => t \notin BLOCKED_TASKS

\* ------------------------------------------------------ lock discipline
\* The run-queue locks and the locks of the timer queues
RunQueueLocks == {"RT_QUEUE", "CFS_QUEUE", "IDLE_QUEUE"}
TimerLocks == {"TIMER_QUEUE", "PENDING_QUEUE"}

\* Timer interrupts in progress at a time (nested on one kernel stack or
\* suspended on another), and timers that one process_pending_timers() call
\* finds in PENDING_QUEUE
MaxNest == 1
MaxPending == 1

\* One lock or flag event of function fn, and a data-dependent branch with
\* the events of each arm
Ev(op, l, fn) == [op |-> op, l |-> l, fn |-> fn, alts |-> {}]
Branch(alts) == [op |-> "branch", l |-> "", fn |-> "", alts |-> alts]

\* A MutexGuard that is dropped before anything else is locked
Locked(l, fn) == << Ev("lock", l, fn), Ev("unlock", l, fn) >>

\* without_interrupts(f): pushfq; pop; cli, f(), sti when IF was set
\* (first: f() alone)
without_interrupts_mut(fn, body) == body
without_interrupts(fn, body) ==
  << Ev("save_cli", "", fn) >> \o body \o << Ev("restore", "", fn) >>

\* enqueue_task_single(task) and enqueue_to_appropriate_queue(task, class):
\* the one queue of the task's class
enqueue_task_single ==
  << Branch({ Locked(l, "schedule") : l \in RunQueueLocks }) >>
enqueue_to_appropriate_queue ==
  << Branch({ Locked(l, "unblock_task") : l \in RunQueueLocks }) >>

\* schedule(): drop(queue) and what follows it (first: the guard lives to
\* the end of the function)
drop_then_mut(l, fn, rest) == rest \o << Ev("unlock", l, fn) >>
drop_then(l, fn, rest) == << Ev("unlock", l, fn) >> \o rest

\* schedule(), phase 3: Terminated (or no old task), Blocked, or Ready
SchedulePhase3 ==
  << Branch({ << >>, Locked("BLOCKED_TASKS", "schedule"), enqueue_task_single }) >>

\* schedule(), phase 2 up to switch_context
SchedulePhase2 ==
  << Ev("lock", "CURRENT_TASK", "schedule") >>
  \o drop_then("CURRENT_TASK", "schedule", SchedulePhase3)
  \o << Ev("switch", "", "schedule") >>

\* schedule(), phase 1: RT_QUEUE, then CFS_QUEUE, then IDLE_QUEUE, each
\* dropped before the next is locked; sti and return when all are empty
SchedulePhase1Idle ==
  << Ev("lock", "IDLE_QUEUE", "schedule") >>
  \o drop_then("IDLE_QUEUE", "schedule",
               << Branch({ SchedulePhase2, << Ev("sti", "", "schedule") >> }) >>)
SchedulePhase1Cfs ==
  << Ev("lock", "CFS_QUEUE", "schedule") >>
  \o drop_then("CFS_QUEUE", "schedule",
               << Branch({ SchedulePhase2, SchedulePhase1Idle }) >>)
schedule_locks ==
  << Ev("cli", "", "schedule"), Ev("lock", "RT_QUEUE", "schedule") >>
  \o drop_then("RT_QUEUE", "schedule",
               << Branch({ SchedulePhase2, SchedulePhase1Cfs }) >>)

\* unblock_task(id)
unblock_task_locks ==
  without_interrupts("unblock_task",
    Locked("BLOCKED_TASKS", "unblock_task")
    \o << Branch({ enqueue_to_appropriate_queue,
                   Locked("WAKEUP_PENDING", "unblock_task") }) >>)

\* block_current_task()
block_current_task_locks ==
  without_interrupts("block_current_task",
    << Ev("lock", "WAKEUP_PENDING", "block_current_task"),
       Ev("lock", "CURRENT_TASK", "block_current_task"),
       Ev("unlock", "CURRENT_TASK", "block_current_task"),
       Ev("unlock", "WAKEUP_PENDING", "block_current_task") >>)
  \o << Branch({ << >>, schedule_locks }) >>

\* current_task_id(), set_current_task(task), try_add_task(task)
current_task_id_locks ==
  without_interrupts("current_task_id", Locked("CURRENT_TASK", "current_task_id"))
set_current_task_locks ==
  without_interrupts("set_current_task", Locked("CURRENT_TASK", "set_current_task"))
try_add_task_locks ==
  without_interrupts("try_add_task",
    << Branch({ Locked(l, "try_add_task") : l \in RunQueueLocks }) >>)

\* register_timer and process_pending_timers: sti when the saved flags had
\* IF set (first: nothing)
restore_flags_mut(fn) == << >>
restore_flags(fn) == << Ev("restore", "", fn) >>

\* register_timer(delay_ticks, callback)
register_timer_locks ==
  << Ev("save_cli", "", "register_timer") >>
  \o Locked("TIMER_QUEUE", "register_timer")
  \o restore_flags("register_timer")

\* sleep_ms(ms), ms > 0
sleep_ms_locks ==
  current_task_id_locks \o register_timer_locks \o block_current_task_locks

\* check_timers()
check_timers_locks ==
  << Ev("lock", "TIMER_QUEUE", "check_timers"),
     Ev("lock", "PENDING_QUEUE", "check_timers"),
     Ev("unlock", "PENDING_QUEUE", "check_timers"),
     Ev("unlock", "TIMER_QUEUE", "check_timers") >>

\* process_pending_timers() when at most n timers are pending: pop_front
\* under cli, then the callback (a log line, or unblock_task of a sleeper)
RECURSIVE process_pending_timers_locks(_)
process_pending_timers_locks(n) ==
  << Ev("save_cli", "", "process_pending_timers") >>
  \o Locked("PENDING_QUEUE", "process_pending_timers")
  \o restore_flags("process_pending_timers")
  \o IF n = 0 THEN << >>
     ELSE << Branch({ << >>,
                      << Ev("call_cb", "", "process_pending_timers"),
                         Branch({ << >>, unblock_task_locks }),
                         Ev("ret_cb", "", "process_pending_timers") >>
                      \o process_pending_timers_locks(n - 1) }) >>

\* do_softirq(): nothing when IN_SOFTIRQ was set or nothing is pending
do_softirq_locks ==
  << Branch({ << >>, process_pending_timers_locks(MaxPending) }) >>

\* check_resched_on_interrupt_exit()
check_resched_on_interrupt_exit_locks ==
  << Branch({ << >>,
              << Ev("sti", "", "check_resched_on_interrupt_exit") >>
              \o do_softirq_locks
              \o << Ev("cli", "", "check_resched_on_interrupt_exit") >> }) >>
  \o << Branch({ << >>, schedule_locks }) >>

\* timer_handler_inner and the stub's iretq
timer_interrupt_locks ==
  check_timers_locks \o check_resched_on_interrupt_exit_locks
  \o << Ev("iretq", "", "timer_interrupt_handler") >>

\* What a task may call
TaskCallLocks ==
  { schedule_locks, sleep_ms_locks, block_current_task_locks, unblock_task_locks,
    current_task_id_locks, set_current_task_locks, try_add_task_locks,
    register_timer_locks, process_pending_timers_locks(MaxPending) }

\* An activation: the events to come, the flags saved by pushfq, the locks
\* taken by the schedule() call in progress, whether a timer callback runs
Activation(kind, ops) ==
  [kind |-> kind, ops |-> ops, flags |-> FALSE, trail |-> << >>, incb |-> FALSE]

Running == code[CURRENT_TASK] # << >>
LTop == code[CURRENT_TASK][Len(code[CURRENT_TASK])]
NextEv == Head(LTop.ops)
OnEv(op) == Running /\ NextEv.op = op
IrqDepth(t) == Cardinality({ i \in 1..Len(code[t]) : code[t][i].kind = "irq" })
RECURSIVE SumOver(_, _)
SumOver(f, S) ==
  IF S = {} THEN 0 ELSE LET x == CHOOSE y \in S : TRUE IN f[x] + SumOver(f, S \ {x})
IrqsInProgress == SumOver([t \in Tasks |-> IrqDepth(t)], Tasks)

\* The stack of the running task once activation f has done its next event
Consumed(f) ==
  LET r == [f EXCEPT !.ops = Tail(@)]
  IN IF r.ops = << >> THEN Pop(code[CURRENT_TASK]) ELSE SetTop(code[CURRENT_TASK], r)

lockFrozen == << task, state, vruntime, RT_QUEUE, CFS_QUEUE, IDLE_QUEUE,
                 BLOCKED_TASKS, WAKEUP_PENDING, NEED_RESCHED, ACCUMULATED_RUNTIME,
                 timerVars, stack, next_task, decided, registry, sleepTimer, wait,
                 dispatches, observe, opCount, mutexVars, context, libVars >>

\* A task calls one of the functions
LockCall ==
  /\ ~Running
  /\ \E ops \in TaskCallLocks :
       code' = [code EXCEPT ![CURRENT_TASK] = Append(@, Activation("task", ops))]
  /\ UNCHANGED << held, CURRENT_TASK, RFLAGS_IF, lockFrozen >>

\* A timer interrupt is taken (interrupt gate: IF cleared)
LockTick ==
  /\ RFLAGS_IF /\ IrqsInProgress < MaxNest
  /\ code' = [code EXCEPT ![CURRENT_TASK] =
                Append(@, Activation("irq", timer_interrupt_locks))]
  /\ RFLAGS_IF' = FALSE
  /\ UNCHANGED << held, CURRENT_TASK, lockFrozen >>

\* An if / match of the code takes one of its arms
LockBranch ==
  /\ OnEv("branch")
  /\ \E arm \in NextEv.alts :
       code' = [code EXCEPT ![CURRENT_TASK] =
                  IF arm \o Tail(LTop.ops) = << >> THEN Pop(@)
                  ELSE SetTop(@, [LTop EXCEPT !.ops = arm \o Tail(@)])]
  /\ UNCHANGED << held, CURRENT_TASK, RFLAGS_IF, lockFrozen >>

\* cli (schedule()'s cli starts a new trail)
LockCli ==
  /\ OnEv("cli")
  /\ RFLAGS_IF' = FALSE
  /\ code' = [code EXCEPT ![CURRENT_TASK] =
                Consumed([LTop EXCEPT !.trail = << >>])]
  /\ UNCHANGED << held, CURRENT_TASK, lockFrozen >>

\* sti
LockSti ==
  /\ OnEv("sti")
  /\ RFLAGS_IF' = TRUE
  /\ code' = [code EXCEPT ![CURRENT_TASK] = Consumed([LTop EXCEPT !.trail = << >>])]
  /\ UNCHANGED << held, CURRENT_TASK, lockFrozen >>

\* pushfq; pop; cli
LockSaveCli ==
  /\ OnEv("save_cli")
  /\ RFLAGS_IF' = FALSE
  /\ code' = [code EXCEPT ![CURRENT_TASK] = Consumed([LTop EXCEPT !.flags = RFLAGS_IF])]
  /\ UNCHANGED << held, CURRENT_TASK, lockFrozen >>

\* if flags & 0x200 != 0 { sti }
LockRestore ==
  /\ OnEv("restore")
  /\ RFLAGS_IF' = (LTop.flags \/ RFLAGS_IF)
  /\ code' = [code EXCEPT ![CURRENT_TASK] = Consumed([LTop EXCEPT !.flags = FALSE])]
  /\ UNCHANGED << held, CURRENT_TASK, lockFrozen >>

\* spin::Mutex::lock(): spins for as long as the lock is held
LockAcquire ==
  /\ OnEv("lock")
  /\ NextEv.l \notin SeqIds(held)
  /\ held' = Append(held, NextEv.l)
  /\ code' = [code EXCEPT ![CURRENT_TASK] =
                Consumed([LTop EXCEPT !.trail = IF NextEv.fn = "schedule"
                                                THEN Append(@, NextEv.l) ELSE @])]
  /\ UNCHANGED << CURRENT_TASK, RFLAGS_IF, lockFrozen >>

\* drop of a MutexGuard
LockRelease ==
  /\ OnEv("unlock")
  /\ held' = SelectSeq(held, LAMBDA x : x # NextEv.l)
  /\ code' = [code EXCEPT ![CURRENT_TASK] = Consumed(LTop)]
  /\ UNCHANGED << CURRENT_TASK, RFLAGS_IF, lockFrozen >>

\* callback() of a popped timer is entered, and returns
LockCallback ==
  /\ OnEv("call_cb")
  /\ code' = [code EXCEPT ![CURRENT_TASK] = Consumed([LTop EXCEPT !.incb = TRUE])]
  /\ UNCHANGED << held, CURRENT_TASK, RFLAGS_IF, lockFrozen >>
LockCallbackReturn ==
  /\ OnEv("ret_cb")
  /\ code' = [code EXCEPT ![CURRENT_TASK] = Consumed([LTop EXCEPT !.incb = FALSE])]
  /\ UNCHANGED << held, CURRENT_TASK, RFLAGS_IF, lockFrozen >>

\* switch_context(old, new): the other task goes on where it was switched
\* out (or at its entry point), with IF set by the restored RFLAGS
LockSwitch ==
  /\ OnEv("switch")
  /\ \E n \in Tasks \ {CURRENT_TASK} : CURRENT_TASK' = n
  /\ RFLAGS_IF' = TRUE
  /\ code' = [code EXCEPT ![CURRENT_TASK] = Consumed([LTop EXCEPT !.trail = << >>])]
  /\ UNCHANGED << held, lockFrozen >>

\* iretq of the interrupt stub
LockIretq ==
  /\ OnEv("iretq")
  /\ RFLAGS_IF' = TRUE
  /\ code' = [code EXCEPT ![CURRENT_TASK] = Pop(@)]
  /\ UNCHANGED << held, CURRENT_TASK, lockFrozen >>

LockInit == InitBoot({ << TaskNew(NICE_DEFAULT), TaskNew(NICE_DEFAULT) >> }, FALSE, << >>)
LockNext ==
  \/ LockCall \/ LockTick \/ LockBranch \/ LockCli \/ LockSti \/ LockSaveCli
  \/ LockRestore \/ LockAcquire \/ LockRelease \/ LockCallback
  \/ LockCallbackReturn \/ LockSwitch \/ LockIretq
LockSpec == LockInit /\ [][LockNext]_vars

\* C18: a timer callback invoked by the softirq drain on interrupt exit is
\* entered and left with IF = 1, and while it runs neither the TIMER_QUEUE
\* nor the PENDING_QUEUE lock is held.
C18_CallbackIfOnNoTimerLock ==
  (Running /\ LTop.kind = "irq") =>
    /\ NextEv.op \in {"call_cb", "ret_cb"} => RFLAGS_IF
    /\ (NextEv.op = "call_cb" \/ LTop.incb) => SeqIds(held) \cap TimerLocks = {}

\* The drain on interrupt exit runs a callback that holds BLOCKED_TASKS
\* inside unblock_task
C18_Witness ==
  /\ Running /\ LTop.kind = "irq" /\ LTop.incb
  /\ held = << "BLOCKED_TASKS" >>
  /\ ~RFLAGS_IF

\* schedule() locks RT_QUEUE, CFS_QUEUE, IDLE_QUEUE in this order
Phase1Order == << "RT_QUEUE", "CFS_QUEUE", "IDLE_QUEUE" >>
\* tr is a run of lock acquisitions in the order RT, CFS, Idle,
\* CURRENT_TASK, then BLOCKED_TASKS or a single run queue
ScheduleOrder(tr) ==
  \/ Len(tr) <= 3 /\ tr = SubSeq(Phase1Order, 1, Len(tr))
  \/ \E n \in 1..3 :
       \/ tr = SubSeq(Phase1Order, 1, n) \o << "CURRENT_TASK" >>
       \/ \E l \in RunQueueLocks \cup {"BLOCKED_TASKS"} :
            tr = SubSeq(Phase1Order, 1, n) \o << "CURRENT_TASK", l >>

\* C19: schedule() never holds two run-queue locks at the same time: each
\* lock it takes is released before the next one is taken, and it takes them
\* in the order RT, CFS, Idle, CURRENT_TASK, then BLOCKED_TASKS or a single
\* run queue.
C19_ScheduleLockOrder ==
  /\ Cardinality(SeqIds(held) \cap RunQueueLocks) <= 1
  /\ (Running /\ LTop.trail # << >>) =>
       /\ ScheduleOrder(LTop.trail)
       /\ held \in { << >>, << LTop.trail[Len(LTop.trail)] >> }

\* schedule() called on interrupt exit found RT_QUEUE and CFS_QUEUE empty,
\* took the idle task and holds CFS_QUEUE to enqueue the old Normal task
C19_Witness ==
  /\ Running /\ LTop.kind = "irq"
  /\ LTop.trail = Phase1Order \o << "CURRENT_TASK", "CFS_QUEUE" >>
  /\ held = << "CFS_QUEUE" >>

\* C20: each of the eight spin locks is held only while interrupts are
\* disabled, and no lock() spins on a lock that is already held.
C20_LocksHeldWithIfOff ==
  /\ held # << >> => ~RFLAGS_IF
  /\ ~(OnEv("lock") /\ NextEv.l \in SeqIds(held))

\* The interrupt path holds TIMER_QUEUE and PENDING_QUEUE having interrupted
\* a process_pending_timers() call of a task
C20_Witness ==
  /\ Len(code[CURRENT_TASK]) = 2
  /\ code[CURRENT_TASK][1].kind = "task"
  /\ Head(code[CURRENT_TASK][1].ops).fn = "process_pending_timers"
  /\ LTop.kind = "irq"
  /\ held = << "TIMER_QUEUE", "PENDING_QUEUE" >>

C24_VruntimeSpreadBounded ==
  CFS_QUEUE # {} =>
    \A a, b \in { t \in Tasks : Class(t) = "Normal" } :
      ~VrLess(VrAdd(vruntime[b], << 0, BASE_WEIGHT * (NICE_MAX - NICE_MIN) >>),
              vruntime[a])

\* C30: a sleep_ms(0) call is a yield_now() call, step for step: it makes the
\* one schedule() call that yield_now() makes, registers no timer, leaves
\* WAKEUP_PENDING alone and does not set its caller Blocked or send it into
\* block_current_task().
C30_SleepZeroIsYield ==
  [][ /\ SleepMs(0) <=> YieldNow
      /\ SleepMs(0) =>
           /\ TIMER_QUEUE' = TIMER_QUEUE /\ TIMER_ID_COUNTER' = TIMER_ID_COUNTER
           /\ registry' = registry /\ sleepTimer' = sleepTimer
           /\ WAKEUP_PENDING' = WAKEUP_PENDING
           /\ state'[CURRENT_TASK] = state[CURRENT_TASK] /\ BLOCKED_TASKS' = BLOCKED_TASKS
           /\ wait' = wait
           /\ \/ next_task' # NoTask /\ Top(CURRENT_TASK)'.pc = "sched_switch"
              \/ next_task' = NoTask /\ Top(CURRENT_TASK)'.pc = "run" ]_vars

\* The schedule() call of a sleep_ms(0) has picked a task while timers of
\* other calls are registered: the caller is Running, not in
\* block_current_task(), and no timer wakes it
C30_Witness ==
  /\ At("sched_switch") /\ Top(CURRENT_TASK).origin = "call"
  /\ state[CURRENT_TASK] = "Running"
  /\ wait[CURRENT_TASK] = "no" /\ sleepTimer[CURRENT_TASK] = 0
  /\ TIMER_QUEUE # {}
  /\ \A tm \in TIMER_QUEUE : tm.cb.task # CURRENT_TASK

\* Three tasks, two of them or more of one class, that yield, block, wake
\* each other and are preempted by ticks
PickConfigs ==
  { << TaskNewRealtime(RT_PRIORITY_DEFAULT), TaskNewRealtime(10),
       TaskNewRealtime(RT_PRIORITY_DEFAULT) >>,
    << TaskNew(NICE_DEFAULT), TaskNew(NICE_MIN), TaskNew(NICE_MAX) >>,
    << TaskNew(NICE_DEFAULT), TaskNewIdle, TaskNewIdle >>,
    << TaskNewRealtime(RT_PRIORITY_DEFAULT), TaskNew(NICE_DEFAULT), TaskNewIdle >> }

PickInit == InitWith(PickConfigs, FALSE)

PickNext ==
  \/ YieldNow
  \/ BlockCurrentTask
  \/ \E j \in Tasks : Unblock(j)
  \/ SchedStep
  \/ Tick(MaxTicks)

PickSpec == PickInit /\ [][PickNext]_vars

\* The task schedule() has to take from the queues as they are at the call
RtBest(t) ==
  /\ \E k \in RT_QUEUE : k[2] = t
  /\ \A o \in RT_QUEUE :
       \/ task[o[2]].rt_priority < task[t].rt_priority
       \/ task[o[2]].rt_priority = task[t].rt_priority /\ t <= o[2]
CfsBest(t) ==
  \E k \in CFS_QUEUE :
    /\ k[2] = t
    /\ \A o \in CFS_QUEUE : ~VrLess(o[1], k[1]) /\ (o[1] = k[1] => t <= o[2])

\* C25: the task a schedule() call picks is the RT_QUEUE entry of highest
\* rt_priority (lowest id on ties) when RT_QUEUE is not empty, else the
\* CFS_QUEUE entry of smallest (vruntime, id) when CFS_QUEUE is not empty,
\* else the front of IDLE_QUEUE; an Idle task is picked only when RT_QUEUE and
\* CFS_QUEUE are both empty.
C25_PicksFirstOfBestQueue ==
  [][(next_task = NoTask /\ next_task' # NoTask) =>
       /\ IF RT_QUEUE # {} THEN RtBest(next_task')
          ELSE IF CFS_QUEUE # {} THEN CfsBest(next_task')
          ELSE IDLE_QUEUE # << >> /\ next_task' = Head(IDLE_QUEUE)
       /\ Class(next_task') = "Idle" => RT_QUEUE = {} /\ CFS_QUEUE = {}]_vars

\* schedule() has picked a Realtime task out of several that were queued,
\* one of them with the same rt_priority and a larger id
C25_Witness ==
  /\ next_task # NoTask /\ Class(next_task) = "Realtime"
  /\ \E k \in RT_QUEUE :
       task[k[2]].rt_priority = task[next_task].rt_priority /\ k[2] > next_task

\* ------------------------------------------------------------ allocator.rs
SIZE_CLASSES == << 8, 16, 32, 64, 128, 256, 512, 1024, 2048, 4096 >>
NUM_SIZE_CLASSES == Len(SIZE_CLASSES)

\* (addr + align - 1) & !(align - 1) and addr & !(align - 1), align a power
\* of two
align_up(addr, align) == ((addr + align - 1) \div align) * align
align_down(addr, align) == (addr \div align) * align

\* size_to_class: position of the first class that is large enough (0: none)
size_to_class(size) ==
  IF \E i \in 1..NUM_SIZE_CLASSES : SIZE_CLASSES[i] >= size
  THEN CHOOSE i \in 1..NUM_SIZE_CLASSES :
         /\ SIZE_CLASSES[i] >= size
         /\ \A j \in 1..(i - 1) : SIZE_CLASSES[j] < size
  ELSE 0

\* SlabCache::add_slab on an empty cache: block i is pushed in front of
\* block i - 1, so the last block is the head
add_slab(slab_start, slab_size, block_size) ==
  LET num_blocks == slab_size \div block_size
  IN [k \in 1..num_blocks |-> slab_start + (num_blocks - k) * block_size]

\* SlabAllocator::init: `current` when the loop reaches class c
RECURSIVE SlabStart(_, _, _)
SlabStart(heap_start, slab_size, c) ==
  IF c = 1 THEN heap_start
  ELSE SlabStart(heap_start, slab_size, c - 1)
       + align_down(slab_size, SIZE_CLASSES[c - 1])

\* Heaps handed to init_heap, layouts (size, align) requested, and alloc
\* calls made
HeapStarts == {4096, 4104}
HeapSizes == {1280, 1440}
Layouts == { << 8, 8 >>, << 16, 16 >>, << 40, 1 >>, << 64, 8 >> }
MaxAllocs == 4

allocFrozen == << kernelVars, compVars, pagingVars, bootVars, drawVars >>

\* init_heap(heap_start, heap_size) -> SlabAllocator::init
SlabInit(heap_start, heap_size) ==
  /\ heap.size = 0
  /\ LET slab_region_size == heap_size \div 2
         slab_size == slab_region_size \div NUM_SIZE_CLASSES
     IN /\ free_list' = [c \in 1..NUM_SIZE_CLASSES |->
                           add_slab(SlabStart(heap_start, slab_size, c),
                                    align_down(slab_size, SIZE_CLASSES[c]),
                                    SIZE_CLASSES[c])]
        /\ large_alloc_next' = heap_start + slab_region_size
  /\ large_alloc_end' = heap_start + heap_size
  /\ heap' = [start |-> heap_start, size |-> heap_size]
  /\ UNCHANGED << live, allocCount, allocFrozen >>

Max(a, b) == IF a >= b THEN a ELSE b

\* GlobalAlloc::alloc(layout): the block of the size class when its cache
\* has one, otherwise allocate_large (a null return changes nothing)
Alloc(size, align) ==
  /\ heap.size > 0 /\ allocCount < MaxAllocs
  /\ allocCount' = allocCount + 1
  /\ LET class_idx == size_to_class(Max(size, align))
         alloc_start == align_up(large_alloc_next, align)
         alloc_end == alloc_start + size
         made(ptr, via) == [id |-> allocCount + 1, ptr |-> ptr, size |-> size,
                            align |-> align, via |-> via]
     IN IF class_idx # 0 /\ free_list[class_idx] # << >>
        THEN /\ free_list' = [free_list EXCEPT ![class_idx] = Tail(@)]
             /\ live' = live \cup { made(Head(free_list[class_idx]), "slab") }
             /\ UNCHANGED large_alloc_next
        ELSE IF alloc_end > large_alloc_end
        THEN UNCHANGED << free_list, live, large_alloc_next >>
        ELSE /\ large_alloc_next' = alloc_end
             /\ live' = live \cup { made(alloc_start, "large") }
             /\ UNCHANGED free_list
  /\ UNCHANGED << heap, large_alloc_end, allocFrozen >>

\* GlobalAlloc::dealloc(ptr, layout) with the layout of the matching alloc
Dealloc(a) ==
  /\ a \in live
  /\ live' = live \ {a}
  /\ LET class_idx == size_to_class(Max(a.size, a.align))
     IN free_list' = IF class_idx # 0
                     THEN [free_list EXCEPT ![class_idx] = << a.ptr >> \o @]
                     ELSE free_list
  /\ UNCHANGED << heap, large_alloc_next, large_alloc_end, allocCount, allocFrozen >>

AllocInit ==
  /\ KernelBoot({ << TaskNew(NICE_DEFAULT), TaskNew(NICE_DEFAULT) >> }, FALSE, << >>)
  /\ LibIdle
AllocNext ==
  \/ \E hs \in HeapStarts, hz \in HeapSizes : SlabInit(hs, hz)
  \/ \E l \in Layouts : Alloc(l[1], l[2])
  \/ \E a \in live : Dealloc(a)
AllocSpec == AllocInit /\ [][AllocNext]_vars

\* C22: no two live allocations share a byte.
C22_NoOverlap ==
  \A a, b \in live :
    a.id # b.id => (a.ptr + a.size <= b.ptr \/ b.ptr + b.size <= a.ptr)

\* C23: every live allocation of at most 4096 bytes is aligned to
\* max(layout.align, class_size), class_size being the size class that
\* serves the layout (stated here for page-aligned heap starts only).
C23_AlignedToClass ==
  \A a \in live :
    (heap.start % 4096 = 0 /\ a.size <= 4096 /\ size_to_class(Max(a.size, a.align)) # 0)
      => a.ptr % Max(a.align, SIZE_CLASSES[size_to_class(Max(a.size, a.align))]) = 0

\* ------------------------------------------------- graphics/compositor.rs
\* Writers registered and frames composed
MaxWriters == 3
MaxFrames == 2

compFrozen == << kernelVars, allocVars, pagingVars, bootVars, drawVars >>

\* Compositor::register_writer on the Arc<Vec>: Vec::clone, push, Arc::new.
\* The Vec the old Arc points at is left as it is.
register_writer_mut(vecs, arc, buffer) ==
  [vecs |-> [vecs EXCEPT ![arc] = Append(@, buffer)], arc |-> arc]
register_writer(vecs, arc, buffer) ==
  LET new_buffers == Append(vecs[arc], buffer)
  IN [vecs |-> Append(vecs, new_buffers), arc |-> Len(vecs) + 1]

\* init_compositor: COMPOSITOR = Some(Compositor::new(config))
InitCompositor ==
  /\ buffers = 0
  /\ vecHeap' = Append(vecHeap, << >>)
  /\ buffers' = Len(vecHeap) + 1
  /\ UNCHANGED << dirty, buffers_snapshot, renderPos, FRAME_COUNT, snapTaken, compFrozen >>

\* register_writer(region): None while COMPOSITOR is None
RegisterWriter ==
  /\ Len(dirty) < MaxWriters
  /\ IF buffers = 0
     THEN UNCHANGED << vecHeap, buffers, dirty >>
     ELSE LET buffer == Len(dirty) + 1
              r == register_writer(vecHeap, buffers, buffer)
          IN /\ vecHeap' = r.vecs
             /\ buffers' = r.arc
             /\ dirty' = Append(dirty, FALSE)
  /\ UNCHANGED << buffers_snapshot, renderPos, FRAME_COUNT, snapTaken, compFrozen >>

\* WriterBuffer::push_command by the writer that owns the buffer
PushCommand(b) ==
  /\ b \in 1..Len(dirty) /\ ~dirty[b]
  /\ dirty' = [dirty EXCEPT ![b] = TRUE]
  /\ UNCHANGED << vecHeap, buffers, buffers_snapshot, renderPos, FRAME_COUNT, snapTaken,
                  compFrozen >>

\* compositor_task, phase 1: get_buffers_snapshot (Arc::clone); with
\* COMPOSITOR None the task sleeps and tries again
GetBuffersSnapshot ==
  /\ buffers_snapshot = 0 /\ FRAME_COUNT < MaxFrames
  /\ buffers_snapshot' = buffers
  /\ renderPos' = IF buffers = 0 THEN 0 ELSE 1
  /\ snapTaken' = IF buffers = 0 THEN snapTaken
                  ELSE [list |-> vecHeap[buffers], registered |-> Len(dirty)]
  /\ UNCHANGED << vecHeap, buffers, dirty, FRAME_COUNT, compFrozen >>

\* compositor_task, phases 2 and 3: the next buffer of the snapshot is
\* rendered and cleared when it is dirty
RenderBuffer ==
  /\ buffers_snapshot # 0 /\ renderPos <= Len(vecHeap[buffers_snapshot])
  /\ LET buffer == vecHeap[buffers_snapshot][renderPos]
     IN dirty' = IF buffer \in 1..Len(dirty) THEN [dirty EXCEPT ![buffer] = FALSE]
                 ELSE dirty
  /\ renderPos' = renderPos + 1
  /\ UNCHANGED << vecHeap, buffers, buffers_snapshot, FRAME_COUNT, snapTaken, compFrozen >>

\* compositor_task, phase 4: blit, FRAME_COUNT += 1; the snapshot is dropped
EndFrame ==
  /\ buffers_snapshot # 0 /\ renderPos > Len(vecHeap[buffers_snapshot])
  /\ FRAME_COUNT' = FRAME_COUNT + 1
  /\ buffers_snapshot' = 0
  /\ renderPos' = 0
  /\ UNCHANGED << vecHeap, buffers, dirty, snapTaken, compFrozen >>

CompInit ==
  /\ KernelBoot({ << TaskNew(NICE_DEFAULT), TaskNew(NICE_DEFAULT) >> }, FALSE, << >>)
  /\ LibIdle

CompNext ==
  \/ InitCompositor
  \/ RegisterWriter
  \/ \E b \in 1..MaxWriters : PushCommand(b)
  \/ GetBuffersSnapshot
  \/ RenderBuffer
  \/ EndFrame

CompSpec == CompInit /\ [][CompNext]_vars

\* C26: a snapshot held by compositor_task is the list it was when it was
\* taken, whatever was registered since, and it holds exactly the buffers
\* whose register_writer had returned when it was taken.
C26_SnapshotCopyOnWrite ==
  buffers_snapshot # 0 =>
    /\ vecHeap[buffers_snapshot] = snapTaken.list
    /\ SeqIds(vecHeap[buffers_snapshot]) = 1..snapTaken.registered
    /\ Len(vecHeap[buffers_snapshot]) = snapTaken.registered

\* A writer was registered while compositor_task holds a snapshot that is
\* not empty
C26_Witness ==
  /\ buffers_snapshot # 0 /\ buffers_snapshot # buffers
  /\ snapTaken.registered >= 1
  /\ Len(dirty) > snapTaken.registered

\* ---------------------------------------------------------------- paging.rs
\* A u64 is << h, m, l >> = h * 2^48 + m * 2^24 + l, h < 2^16 and m, l < 2^24
Limb == 4096 * 4096
TopLimb == 256 * 256
U64Zero == << 0, 0, 0 >>
U64FromInt(n) == << 0, n \div Limb, n % Limb >>
U64ToInt(a) == a[2] * Limb + a[3]
U64Less(a, b) ==
  \/ a[1] < b[1]
  \/ a[1] = b[1] /\ a[2] < b[2]
  \/ a[1] = b[1] /\ a[2] = b[2] /\ a[3] < b[3]

\* a + b in 64 bits and whether the sum left the 64 bits
U64Sum(a, b) ==
  LET l == a[3] + b[3]
      m == a[2] + b[2] + (l \div Limb)
      h == a[1] + b[1] + (m \div Limb)
  IN [val |-> << h % TopLimb, m % Limb, l % Limb >>, overflow |-> h >= TopLimb]

\* a - b for a >= b
U64Diff(a, b) ==
  LET bl == IF a[3] < b[3] THEN 1 ELSE 0
      bm == IF a[2] - bl < b[2] THEN 1 ELSE 0
  IN << a[1] - b[1] - bm, a[2] - bl - b[2] + bm * Limb, a[3] - b[3] + bl * Limb >>

Ok(v) == [ok |-> TRUE, val |-> v, err |-> "none"]
Err(e) == [ok |-> FALSE, val |-> U64Zero, err |-> e]

\* u64::checked_sub
checked_sub(a, b) == IF U64Less(a, b) THEN Err("None") ELSE Ok(U64Diff(a, b))

KERNEL_VIRTUAL_BASE == << 65535, 8388608, 0 >>
PAGE_TABLE_ENTRY_COUNT == 512
PAGE_SIZE == 4096
MAX_SUPPORTED_MEMORY_GB == 4
PT_COUNT == MAX_SUPPORTED_MEMORY_GB * 512
Present == 1
Writable == 2

\* phys_to_virt: the results the call can have.  phys_addr + KERNEL_VIRTUAL_BASE
\* leaves the 64 bits for phys_addr >= 2^47: the addition panics in a build
\* with overflow checks and wraps in a build without.
phys_to_virt_mut(phys_addr) ==
  IF phys_addr = U64Zero THEN { Err("InvalidAddress") } ELSE { Ok(phys_addr) }
phys_to_virt(phys_addr) ==
  IF phys_addr = U64Zero THEN { Err("InvalidAddress") }
  ELSE LET sum == U64Sum(phys_addr, KERNEL_VIRTUAL_BASE)
       IN IF sum.overflow THEN { Err("panic"), Ok(sum.val) } ELSE { Ok(sum.val) }

\* virt_to_phys
virt_to_phys(virt_addr) ==
  IF U64Less(virt_addr, KERNEL_VIRTUAL_BASE) THEN Err("InvalidAddress")
  ELSE LET d == checked_sub(virt_addr, KERNEL_VIRTUAL_BASE)
       IN IF d.ok THEN d ELSE Err("AddressConversionFailed")

\* PageTableEntry::set and get_address for an address below 2^31 (the bits
\* the mask 0x000F_FFFF_FFFF_F000 clears above bit 51 are 0)
set(addr, flags) == (addr - (addr % PAGE_SIZE)) + flags
get_address(entry) == entry - (entry % PAGE_SIZE)

\* max_supported = 4 << 30, and the flags of init
max_supported == << 0, MAX_SUPPORTED_MEMORY_GB * 64, 0 >>
init_flags_mut == Present
init_flags == Present + Writable

\* An entry of the upper levels: the physical address of a static table,
\* kept as the name of the table, and the flags
Link(table, flags) == [table |-> table, flags |-> flags]

\* boot_info.max_physical_address and the address of KERNEL_STACK
MaxPhysicalAddresses == { 5 * 4096, 5 * 4096 + 2048, 513 * 4096 }
StackOffsets == { 0, 4096, 3 * 4096, 3 * 4096 + 16, 8 * 4096, 512 * 4096 }
KernelStacks == { U64Sum(KERNEL_VIRTUAL_BASE, U64FromInt(o)).val : o \in StackOffsets }

pagingFrozen == << kernelVars, allocVars, compVars, bootVars, drawVars >>

\* paging::init(boot_info)
PagingInit(max_physical_address, stack_virt_addr) ==
  /\ pagingInit.result = "none"
  /\ LET bound == U64FromInt(max_physical_address)
         actual_max == IF U64Less(bound, max_supported) THEN max_physical_address
                       ELSE U64ToInt(max_supported)
         required_pt_count == (actual_max + 2 * 1024 * 1024 - 1) \div (2 * 1024 * 1024)
         required_pd_count == (required_pt_count + 511) \div 512
         mapped == { n \in 0..(required_pt_count * PAGE_TABLE_ENTRY_COUNT - 1) :
                       n * PAGE_SIZE < actual_max }
         guard_page_virt_addr == checked_sub(stack_virt_addr, U64FromInt(PAGE_SIZE))
         guard_page_phys_addr == virt_to_phys(guard_page_virt_addr.val)
         in_tables == U64Less(guard_page_phys_addr.val, max_supported)
         page_num == U64ToInt(guard_page_phys_addr.val) \div PAGE_SIZE
         result == IF ~guard_page_virt_addr.ok THEN "GuardPageSetupFailed"
                   ELSE IF ~guard_page_phys_addr.ok THEN guard_page_phys_addr.err
                   ELSE IF ~in_tables THEN "GuardPageSetupFailed"
                   ELSE "Ok"
     IN /\ KERNEL_PML4' = (256 :> Link("KERNEL_PDP_HIGH", init_flags))
        /\ KERNEL_PDP_HIGH' = [i \in 0..(required_pd_count - 1) |->
                                 Link(<< "KERNEL_PD_HIGH", i >>, init_flags)]
        /\ KERNEL_PD_HIGH' =
             [k \in { << pt_idx \div PAGE_TABLE_ENTRY_COUNT, pt_idx % PAGE_TABLE_ENTRY_COUNT >> :
                        pt_idx \in 0..(required_pt_count - 1) } |->
                Link(<< "KERNEL_PT_HIGH", k[1] * PAGE_TABLE_ENTRY_COUNT + k[2] >>, init_flags)]
        /\ KERNEL_PT_HIGH' =
             IF result = "Ok"
             THEN [n \in mapped \cup {page_num} |->
                     IF n = page_num THEN set(U64ToInt(guard_page_phys_addr.val), 0)
                     ELSE set(n * PAGE_SIZE, init_flags)]
             ELSE [n \in mapped |-> set(n * PAGE_SIZE, init_flags)]
        /\ CR3' = IF result = "Ok" THEN "KERNEL_PML4" ELSE CR3
        /\ pagingInit' = [result |-> result, actual_max |-> actual_max,
                          stack |-> stack_virt_addr]
  /\ UNCHANGED << lastConv, pagingFrozen >>

\* Physical and virtual addresses handed to the conversions
PhysInputs ==
  { U64Zero, U64FromInt(4096), U64FromInt(4101), U64FromInt(5 * 4096 - 1),
    U64FromInt(5 * 4096), max_supported, << 0, 8388608, 0 >>,
    << 65535, Limb - 1, Limb - 1 >> }
VirtInputs ==
  { U64Zero, U64FromInt(4096), << 65535, 8388607, Limb - 1 >>, KERNEL_VIRTUAL_BASE,
    U64Sum(KERNEL_VIRTUAL_BASE, U64FromInt(4096)).val }

\* A call of phys_to_virt
PhysToVirt(phys_addr) ==
  /\ pagingInit.result # "none"
  /\ \E r \in phys_to_virt(phys_addr) :
       lastConv' = [op |-> "phys_to_virt", arg |-> phys_addr, res |-> r, from |-> << >>]
  /\ UNCHANGED << KERNEL_PML4, KERNEL_PDP_HIGH, KERNEL_PD_HIGH, KERNEL_PT_HIGH, CR3,
                  pagingInit, pagingFrozen >>

\* A call of virt_to_phys on an address of the caller's
VirtToPhys(virt_addr) ==
  /\ pagingInit.result # "none"
  /\ lastConv' = [op |-> "virt_to_phys", arg |-> virt_addr,
                  res |-> virt_to_phys(virt_addr), from |-> << >>]
  /\ UNCHANGED << KERNEL_PML4, KERNEL_PDP_HIGH, KERNEL_PD_HIGH, KERNEL_PT_HIGH, CR3,
                  pagingInit, pagingFrozen >>

\* A call of virt_to_phys on what phys_to_virt has just returned
VirtToPhysBack ==
  /\ lastConv.op = "phys_to_virt" /\ lastConv.res.ok
  /\ lastConv' = [op |-> "virt_to_phys", arg |-> lastConv.res.val,
                  res |-> virt_to_phys(lastConv.res.val), from |-> << lastConv.arg >>]
  /\ UNCHANGED << KERNEL_PML4, KERNEL_PDP_HIGH, KERNEL_PD_HIGH, KERNEL_PT_HIGH, CR3,
                  pagingInit, pagingFrozen >>

PagingBoot ==
  /\ KernelBoot({ << TaskNew(NICE_DEFAULT), TaskNew(NICE_DEFAULT) >> }, FALSE, << >>)
  /\ LibIdle

PagingNext ==
  \/ \E m \in MaxPhysicalAddresses, k \in KernelStacks : PagingInit(m, k)
  \/ \E p \in PhysInputs : PhysToVirt(p)
  \/ \E v \in VirtInputs : VirtToPhys(v)
  \/ VirtToPhysBack

PagingSpec == PagingBoot /\ [][PagingNext]_vars

\* A physical address below actual_max, after an init that returned Ok
Mapped(p) == pagingInit.result = "Ok" /\ U64Less(p, U64FromInt(pagingInit.actual_max))

\* The round trip of a physical address p: phys_to_virt(p) is Ok, and
\* virt_to_phys of its result is Ok(p)
RoundTrips(p) ==
  /\ (lastConv.op = "phys_to_virt" /\ lastConv.arg = p) => lastConv.res.ok
  /\ (lastConv.op = "virt_to_phys" /\ lastConv.from = << p >>) =>
       lastConv.res.ok /\ lastConv.res.val = p

\* C27 as stated: virt_to_phys(phys_to_virt(P)) succeeds and is P for every
\* mapped physical address P < actual_max.
C27_RoundTripMapped ==
  \A p \in PhysInputs : Mapped(p) => RoundTrips(p)

\* C27, amended: virt_to_phys(phys_to_virt(P)) succeeds and is P for every
\* mapped physical address P with 0 < P < actual_max.
C27_RoundTripMappedNonZero ==
  \A p \in PhysInputs : (Mapped(p) /\ p # U64Zero) => RoundTrips(p)

\* virt_to_phys has returned from the address phys_to_virt gave for a mapped
\* address that is not a multiple of the page size
C27_Witness ==
  /\ lastConv.op = "virt_to_phys" /\ lastConv.from = << U64FromInt(4101) >>
  /\ Mapped(U64FromInt(4101))
  /\ lastConv.res.ok

\* C28: phys_to_virt fails for P = 0 and for every P outside [0, MAX_MAPPED),
\* MAX_MAPPED taken at its largest (max_supported); virt_to_phys fails for
\* every V < KERNEL_VIRTUAL_BASE.
C28_OutOfRangeFails ==
  /\ ( /\ lastConv.op = "phys_to_virt"
       /\ (lastConv.arg = U64Zero \/ ~U64Less(lastConv.arg, max_supported)) )
     => ~lastConv.res.ok
  /\ (lastConv.op = "virt_to_phys" /\ U64Less(lastConv.arg, KERNEL_VIRTUAL_BASE))
     => ~lastConv.res.ok

\* The page-table entry a walk from KERNEL_PML4 finds for the virtual
\* address p + KERNEL_VIRTUAL_BASE (p < 2^31): -1 when an entry of an upper
\* level is not Present or leads elsewhere
Walk(p) ==
  LET pdp_idx == p \div (1024 * 1024 * 1024)
      pd_idx == (p \div (2 * 1024 * 1024)) % PAGE_TABLE_ENTRY_COUNT
      pt_idx == (p \div PAGE_SIZE) % PAGE_TABLE_ENTRY_COUNT
      present(e) == e.flags % 2 = Present
  IN IF ~(256 \in DOMAIN KERNEL_PML4 /\ present(KERNEL_PML4[256])
          /\ KERNEL_PML4[256].table = "KERNEL_PDP_HIGH") THEN 0 - 1
     ELSE IF ~(pdp_idx \in DOMAIN KERNEL_PDP_HIGH /\ present(KERNEL_PDP_HIGH[pdp_idx])) THEN 0 - 1
     ELSE LET pd == KERNEL_PDP_HIGH[pdp_idx].table[2]
          IN IF ~(<< pd, pd_idx >> \in DOMAIN KERNEL_PD_HIGH
                  /\ present(KERNEL_PD_HIGH[<< pd, pd_idx >>])) THEN 0 - 1
             ELSE LET n == KERNEL_PD_HIGH[<< pd, pd_idx >>].table[2] * PAGE_TABLE_ENTRY_COUNT
                             + pt_idx
                  IN IF n \in DOMAIN KERNEL_PT_HIGH THEN KERNEL_PT_HIGH[n] ELSE 0

\* The frame of the guard page: the page that holds the address one page
\* below KERNEL_STACK
GuardFrame ==
  get_address(U64ToInt(U64Diff(U64Diff(pagingInit.stack, U64FromInt(PAGE_SIZE)),
                               KERNEL_VIRTUAL_BASE)))

\* C29: after paging::init returned Ok, the entry of every 4 KiB frame P in
\* [0, actual_max) holds P | Present | Writable, except the guard page, whose
\* entry has Present = 0 and holds the address of the page.
C29_DirectMapWithGuard ==
  pagingInit.result = "Ok" =>
    \A n \in 0..((pagingInit.actual_max + PAGE_SIZE - 1) \div PAGE_SIZE - 1) :
      LET P == n * PAGE_SIZE
      IN IF P = GuardFrame
         THEN Walk(P) >= 0 /\ Walk(P) % 2 = 0 /\ get_address(Walk(P)) = P
         ELSE Walk(P) = P + Present + Writable

\* init returned Ok with more than one page table in use and the guard page
\* inside the mapped range
C29_Witness ==
  /\ pagingInit.result = "Ok"
  /\ pagingInit.actual_max > 512 * PAGE_SIZE
  /\ GuardFrame > 0 /\ GuardFrame < pagingInit.actual_max
  /\ CR3 = "KERNEL_PML4"

\* ------------------------------------------------------ bootloader/main.rs
EFI_RESERVED_MEMORY_TYPE == 0
EFI_BOOT_SERVICES_DATA == 4
EFI_CONVENTIONAL_MEMORY == 7
MAX_MEMORY_REGIONS == 256

\* Descriptors the firmware's GetMemoryMap returns, and how many of them
MaxDescriptors == 2
EfiMemoryDescriptors ==
  { [type |-> EFI_CONVENTIONAL_MEMORY, physical_start |-> 4096, number_of_pages |-> 4],
    [type |-> EFI_CONVENTIONAL_MEMORY, physical_start |-> 256 * 4096, number_of_pages |-> 256],
    [type |-> EFI_RESERVED_MEMORY_TYPE, physical_start |-> 512 * 4096, number_of_pages |-> 16],
    [type |-> EFI_BOOT_SERVICES_DATA, physical_start |-> 8 * 4096, number_of_pages |-> 2] }
EfiMemoryMaps ==
  UNION { [1..n -> EfiMemoryDescriptors] : n \in 1..MaxDescriptors }

bootFrozen == << kernelVars, allocVars, compVars, pagingVars, drawVars >>

\* efi_main from GetMemoryMap to the jump to the kernel: BootInfo::new(), the
\* memory map copied into it, memory_map_count
EfiMain(map) ==
  /\ bootPc = "firmware"
  /\ LET entry_count == Len(map)
         copied == Min2(entry_count, MAX_MEMORY_REGIONS)
     IN boot_info' = [BootInfoNew EXCEPT
          !.memory_map = [i \in 1..copied |->
                            [start |-> map[i].physical_start,
                             size |-> map[i].number_of_pages * 4096,
                             region_type |-> map[i].type]],
          !.memory_map_count = copied]
  /\ bootPc' = "kernel"
  /\ UNCHANGED bootFrozen

\* kernel_main: paging::init(boot_info)
KernelPagingInit ==
  /\ bootPc = "kernel"
  /\ \E k \in KernelStacks : PagingInit(boot_info.max_physical_address, k)

BootNext ==
  \/ \E map \in EfiMemoryMaps : EfiMain(map)
  \/ KernelPagingInit

BootSpec == PagingBoot /\ [][BootNext]_vars

\* The highest physical address of the usable (conventional) regions of a
\* memory map: the largest start + size
HighestUsable(memory_map) ==
  LET ends == { memory_map[i].start + memory_map[i].size :
                  i \in { j \in 1..Len(memory_map) :
                            memory_map[j].region_type = EFI_CONVENTIONAL_MEMORY } }
  IN IF ends = {} THEN 0 ELSE CHOOSE e \in ends : \A o \in ends : o <= e

\* C31: once efi_main has jumped to the kernel, BootInfo.max_physical_address
\* is the highest physical address of the usable regions of the memory map,
\* and the actual_max of paging::init is computed from it.
C31_MaxPhysicalAddressSet ==
  bootPc = "kernel" =>
    /\ boot_info.max_physical_address = HighestUsable(boot_info.memory_map)
    /\ pagingInit.result # "none" =>
         pagingInit.actual_max = HighestUsable(boot_info.memory_map)

\* ------------------------------------------- sync/blocking_mutex.rs: liveness
\* The ids try_add_task gave to the tasks of Configs
TaskIds == {0, 1}

\* The tasks of MutexSpec with one more tick, where every step of a call that has begun is
\* eventually taken and the timer keeps ticking; no task is obliged to call
\* lock() or try_lock() again
LiveTicks == 3
MutexLiveNext == MutexLock \/ MutexStep \/ SchedStep \/ Tick(LiveTicks)
MutexLiveSpec ==
  /\ Init /\ [][MutexLiveNext]_vars
  /\ WF_vars(MutexStep \/ SchedStep \/ Tick(LiveTicks))

\* Task t is parked in BLOCKED_TASKS and queued in the mutex's wait queue,
\* while the mutex is unlocked and no task is between the store of its drop
\* and its wake_one
Stranded(t) ==
  /\ t \in BLOCKED_TASKS
  /\ t \in SeqIds(waiters)
  /\ ~locked /\ guards = {}
  /\ \A o \in Tasks : \A i \in 1..Len(stack[o]) : stack[o][i].pc # "mx_wake"

\* C32: BlockingMutex::lock() is live: a task blocked in the mutex's wait
\* queue while the mutex is unlocked and no holder remains to wake it
\* eventually obtains the guard.
C32_LockIsLive ==
  \A t \in TaskIds : Stranded(t) ~> (t \in guards)

\* ------------------------------------------------ timer.rs: in_softirq
\* C33: no context switch happens while IN_SOFTIRQ is set: IN_SOFTIRQ is
\* never set while a task other than the one executing do_softirq is running.
C33_NoSwitchInSoftirq ==
  IN_SOFTIRQ => \A x \in DrainFrames : x[1] = CURRENT_TASK

\* --------------------------------------- scheduler.rs: charge at switch-out
\* A Normal task of every nice value next to one of the default nice value,
\* which call yield_now() and are preempted by ticks
YieldConfigs ==
  { << TaskNew(n), TaskNew(NICE_DEFAULT) >> : n \in NICE_MIN..NICE_MAX }
YieldInit == InitWith(YieldConfigs, FALSE)
YieldNext ==
  \/ YieldNow
  \/ ScheduleSwitch
  \/ Tick(MaxTicks)
  \/ IrqExit
  \/ IrqResched
  \/ Iret
YieldSpec == YieldInit /\ [][YieldNext]_vars

\* C34: whenever schedule() switches out a Normal task its vruntime strictly
\* increases, also when ACCUMULATED_RUNTIME is zero, for every weight of the
\* nice-to-weight table.
C34_SwitchOutIncreasesVruntime ==
  [][\A t \in TaskIds :
       (CURRENT_TASK = t /\ CURRENT_TASK' # t /\ Class(t) = "Normal")
         => VrLess(vruntime[t], vruntime'[t])]_vars

\* ------------------------------- scheduler.rs: schedule() without a switch
\* C35: schedule() called from check_resched_on_interrupt_exit with
\* interrupts disabled, when every run queue is empty, returns with IF
\* unchanged from its value at entry (disabled until the stub's iretq).
C35_NoSwitchKeepsIf ==
  [][(/\ At("irq_resched") /\ NEED_RESCHED
      /\ RT_QUEUE = {} /\ CFS_QUEUE = {} /\ IDLE_QUEUE = << >>)
       => RFLAGS_IF' = RFLAGS_IF]_vars

\* ------------------------------------------------------ graphics/writer.rs
\* The region of the writer (width and height in pixels; a glyph is 8 x 8 and
\* a line is 10 high), the strings written and the positions set
RegionWidth == 24
RegionHeight == 18
WriterStrings == { << "a" >>, << "a", "a" >>, << "a", "\n", "a" >> }
WriterPositions == { << 0, 0 >>, << 16, 10 >> }
MaxWriterOps == 3
MaxPasses == 2

drawFrozen == << kernelVars, allocVars, compVars, pagingVars, bootVars >>

\* local_commands.push(cmd); every command pushed gets the next id
PushLocal(W, cmd) ==
  [W EXCEPT !.w.local_commands = Append(@, [cmd EXCEPT !.id = W.pushed + 1]),
            !.pushed = @ + 1]

DrawString(x, y, text, color) ==
  [kind |-> "DrawString", x |-> x, y |-> y, text |-> text, color |-> color, id |-> 0]
ClearCmd(color) ==
  [kind |-> "Clear", x |-> 0, y |-> 0, text |-> << >>, color |-> color, id |-> 0]

\* TaskWriter::commit_pending_text
commit_pending_text(W) ==
  IF W.w.pending_text = << >> THEN W
  ELSE LET text == W.w.pending_text
           V == [W EXCEPT !.w.pending_text = << >>]
       IN PushLocal(V, DrawString(W.w.pending_x, W.w.pending_y, text, W.w.color))

\* write_str, one byte: a newline, or a character that is appended to
\* pending_text (as the index of its entry in `written`, which records the
\* cursor position and the colour at the time of the write)
WriteByte(W, ch) ==
  IF ch = "\n"
  THEN LET V == commit_pending_text(W)
       IN [V EXCEPT !.w.cursor_x = 0, !.w.cursor_y = @ + 10]
  ELSE LET A == IF W.w.cursor_x + 8 > RegionWidth
                THEN LET V == commit_pending_text(W)
                     IN [V EXCEPT !.w.cursor_x = 0, !.w.cursor_y = @ + 10]
                ELSE W
           B == IF A.w.cursor_y + 8 > RegionHeight
                THEN LET V == PushLocal(commit_pending_text(A), ClearCmd(0))
                     IN [V EXCEPT !.w.cursor_y = 0]
                ELSE A
           C == IF B.w.pending_text = << >>
                THEN [B EXCEPT !.w.pending_x = B.w.cursor_x,
                               !.w.pending_y = B.w.cursor_y]
                ELSE B
       IN [C EXCEPT
             !.written = Append(@, [x |-> C.w.cursor_x, y |-> C.w.cursor_y,
                                    color |-> C.w.color]),
             !.w.pending_text = Append(@, Len(C.written) + 1),
             !.w.cursor_x = @ + 8]

RECURSIVE write_str(_, _)
write_str(W, str) ==
  IF str = << >> THEN W ELSE write_str(WriteByte(W, Head(str)), Tail(str))

WriterCall == flushPc = "idle" /\ tw.ops < MaxWriterOps
Counted(W) == [W EXCEPT !.ops = @ + 1]

\* <TaskWriter as core::fmt::Write>::write_str
WriteStr(str) ==
  /\ WriterCall
  /\ tw' = Counted(write_str(tw, str))
  /\ UNCHANGED << shared, flushPc, passPc, rendered, passes, drawFrozen >>

\* TaskWriter::set_position
SetPosition(x, y) ==
  /\ WriterCall
  /\ tw' = Counted([tw EXCEPT !.w.cursor_x = x, !.w.cursor_y = y])
  /\ UNCHANGED << shared, flushPc, passPc, rendered, passes, drawFrozen >>

\* TaskWriter::set_color
SetColor(color) ==
  /\ WriterCall
  /\ tw' = Counted([tw EXCEPT !.w.color = color])
  /\ UNCHANGED << shared, flushPc, passPc, rendered, passes, drawFrozen >>

\* TaskWriter::clear
ClearRegion(bg_color) ==
  /\ WriterCall
  /\ LET V == PushLocal(commit_pending_text(tw), ClearCmd(bg_color))
     IN tw' = Counted([V EXCEPT !.w.cursor_x = 0, !.w.cursor_y = 0])
  /\ UNCHANGED << shared, flushPc, passPc, rendered, passes, drawFrozen >>

\* TaskWriter::flush up to the call of buffer.lock(): commit_pending_text and
\* the return when there is nothing to transfer
FlushBegin ==
  /\ flushPc = "idle"
  /\ tw' = commit_pending_text(tw)
  /\ flushPc' = IF tw'.w.local_commands = << >> THEN "idle" ELSE "lock"
  /\ UNCHANGED << shared, passPc, rendered, passes, drawFrozen >>

\* flush: buffer.lock(), which goes on only once its compare_exchange has
\* succeeded
FlushLock ==
  /\ flushPc = "lock"
  /\ compare_exchange_ok(shared.locked)
  /\ shared' = [shared EXCEPT !.locked = TRUE]
  /\ flushPc' = "extend"
  /\ UNCHANGED << tw, passPc, rendered, passes, drawFrozen >>

\* WriterBuffer::extend_commands
extend_commands(buf, commands) ==
  [buf EXCEPT !.commands = @ \o commands,
              !.dirty = IF Len(commands) > 0 THEN TRUE ELSE @]

\* flush: extend_commands(local_commands.drain(..)) and the drop of the guard
FlushExtend ==
  /\ flushPc = "extend"
  /\ shared' = [extend_commands(shared, tw.w.local_commands) EXCEPT !.locked = FALSE]
  /\ tw' = [tw EXCEPT !.w.local_commands = << >>]
  /\ flushPc' = "idle"
  /\ UNCHANGED << passPc, rendered, passes, drawFrozen >>

\* compositor_task, the render loop at this buffer: buffer.try_lock(); a
\* buffer whose lock is taken is skipped
PassTryLock ==
  /\ passPc = "idle" /\ passes.done < MaxPasses
  /\ IF compare_exchange_ok(shared.locked)
     THEN /\ shared' = [shared EXCEPT !.locked = TRUE]
          /\ passPc' = "locked"
          /\ passes' = [passes EXCEPT !.done = @ + 1]
     ELSE /\ passes' = [passes EXCEPT !.done = @ + 1, !.skipped = @ + 1]
          /\ UNCHANGED << shared, passPc >>
  /\ UNCHANGED << tw, flushPc, rendered, drawFrozen >>

\* the render loop under the guard: is_dirty(), render_commands_to
PassRender ==
  /\ passPc = "locked"
  /\ IF shared.dirty
     THEN /\ rendered' = rendered \o shared.commands
          /\ passPc' = "clear"
          /\ UNCHANGED shared
     ELSE /\ shared' = [shared EXCEPT !.locked = FALSE]
          /\ passPc' = "idle"
          /\ UNCHANGED rendered
  /\ UNCHANGED << tw, flushPc, passes, drawFrozen >>

\* the render loop under the guard: clear_commands() and the drop of the guard
PassClear ==
  /\ passPc = "clear"
  /\ shared' = [shared EXCEPT !.commands = << >>, !.dirty = FALSE, !.locked = FALSE]
  /\ passPc' = "idle"
  /\ UNCHANGED << tw, flushPc, rendered, passes, drawFrozen >>

DrawInit ==
  /\ KernelBoot({ << TaskNew(NICE_DEFAULT), TaskNew(NICE_DEFAULT) >> }, FALSE, << >>)
  /\ AllocatorNew /\ CompositorNone /\ PageTableNew /\ Firmware /\ DrawBoot(Colors)

DrawNext ==
  \/ \E str \in WriterStrings : WriteStr(str)
  \/ \E p \in WriterPositions : SetPosition(p[1], p[2])
  \/ \E c \in Colors : SetColor(c)
  \/ ClearRegion(0)
  \/ FlushBegin
  \/ FlushLock
  \/ FlushExtend
  \/ PassTryLock
  \/ PassRender
  \/ PassClear

DrawSpec == DrawInit /\ [][DrawNext]_vars

\* The commands the writer has emitted so far, wherever they are now
Emitted ==
  SeqIds(tw.w.local_commands) \cup SeqIds(shared.commands) \cup SeqIds(rendered)

\* Character n lies in DrawString d at the place and in the colour it was
\* written with (glyph i of a DrawString is drawn at x + 8 * i)
PlacedIn(n, d) ==
  \E i \in 1..Len(d.text) :
    /\ d.text[i] = n
    /\ tw.written[n].x = d.x + 8 * (i - 1)
    /\ tw.written[n].y = d.y
    /\ tw.written[n].color = d.color

\* C36: every character written is emitted inside a DrawString placed at
\* the cursor position the character was written at and carrying the colour
\* that was current when it was written (characters still in pending_text
\* are not emitted yet).
C36_EmittedAsWritten ==
  \A n \in 1..Len(tw.written) :
    n \notin SeqIds(tw.w.pending_text) =>
      \E d \in Emitted : d.kind = "DrawString" /\ PlacedIn(n, d)

\* ---------------------------------------- graphics: flush and the render loop
\* How often the command of id n occurs in a sequence of commands
Occurrences(cmds, n) == Cardinality({ i \in 1..Len(cmds) : cmds[i].id = n })

\* C37: every draw command flushed into the SharedBuffer is rendered exactly
\* once: it stays in the buffer, not rendered, until a pass that got the lock
\* renders it, and it leaves the buffer only under the guard under which it
\* was rendered; none is dropped and none is rendered twice.
C37_RenderedExactlyOnce ==
  \A n \in 1..tw.pushed :
    LET local == Occurrences(tw.w.local_commands, n)
        queued == Occurrences(shared.commands, n)
        drawn == Occurrences(rendered, n)
    IN /\ local + queued <= 1 /\ drawn <= 1
       /\ local = 1 => queued = 0 /\ drawn = 0
       /\ local = 0 /\ queued = 1 => (drawn = 1 <=> passPc = "clear")
       /\ local = 0 /\ queued = 0 => drawn = 1

\* C37 witness: a pass skipped the buffer because the writer's flush held
\* its lock, and a later pass has rendered and cleared everything flushed,
\* two commands at least.
C37_Witness ==
  /\ passes.skipped >= 1
  /\ tw.pushed >= 2 /\ Len(rendered) = tw.pushed
  /\ shared.commands = << >> /\ passPc = "idle"

\* ------------------------------------------ scheduler.rs: queue membership
\* C38: every task in RT_QUEUE, CFS_QUEUE or IDLE_QUEUE has state Ready and
\* sits in the queue of its own scheduling class, under the key computed
\* from its current rt_priority or vruntime and its id; every task in
\* BLOCKED_TASKS has state Blocked.
C38_QueuesAgreeWithState ==
  /\ \A k \in RT_QUEUE :
       k[2] \in Tasks /\ state[k[2]] = "Ready" /\ Class(k[2]) = "Realtime" /\ k = RtKey(k[2])
  /\ \A k \in CFS_QUEUE :
       k[2] \in Tasks /\ state[k[2]] = "Ready" /\ Class(k[2]) = "Normal" /\ k = CfsKey(k[2])
  /\ \A t \in SeqIds(IDLE_QUEUE) :
       t \in Tasks /\ state[t] = "Ready" /\ Class(t) = "Idle"
  /\ \A t \in BLOCKED_TASKS : state[t] = "Blocked"

\* C38 witness: a Normal task that has been charged runtime waits in
\* CFS_QUEUE while another task is parked in BLOCKED_TASKS.
C38_Witness ==
  /\ \E k \in CFS_QUEUE : k[1] # VrZero
  /\ BLOCKED_TASKS # {}

\* ------------------------------------------- timer.rs: pending timers
\* C39: an expired timer is never stranded: whenever interrupts are enabled
\* and PENDING_QUEUE is not empty, SOFTIRQ_PENDING is set or IN_SOFTIRQ is
\* set (a do_softirq drain is in progress).
C39_PendingNeverStranded ==
  (RFLAGS_IF /\ PENDING_QUEUE # << >>) => (SOFTIRQ_PENDING \/ IN_SOFTIRQ)

\* C39 witness: a tick that arrived after the drain loop's last test of
\* SOFTIRQ_PENDING has left a timer in PENDING_QUEUE, and do_softirq has
\* just cleared IN_SOFTIRQ, interrupts still enabled.
C39_Witness ==
  /\ At("softirq_ret") /\ RFLAGS_IF
  /\ PENDING_QUEUE # << >>
  /\ ~IN_SOFTIRQ /\ SOFTIRQ_PENDING

\* --------------------------------------- scheduler.rs: who is charged what
\* ACCUMULATED_RUNTIME is the tick time since the last task switch: every
\* tick adds one period to it while CURRENT_TASK stays, nothing else adds to
\* it, and every change of CURRENT_TASK leaves it at 0
AccumulatesForCurrent ==
  /\ CURRENT_TASK' # CURRENT_TASK => ACCUMULATED_RUNTIME' = 0
  /\ TICK_COUNT' # TICK_COUNT =>
       /\ TICK_COUNT' = TICK_COUNT + 1 /\ CURRENT_TASK' = CURRENT_TASK
       /\ ACCUMULATED_RUNTIME' = ACCUMULATED_RUNTIME + TIMER_PERIOD_NS
  /\ (CURRENT_TASK' = CURRENT_TASK /\ TICK_COUNT' = TICK_COUNT) =>
       ACCUMULATED_RUNTIME' = ACCUMULATED_RUNTIME

\* The only vruntime that changes in a step is that of a Normal task that
\* is switched out, and it grows by (delta * 1024) / weight
ChargesOnly(delta) ==
  \A t \in Tasks :
    IF t = CURRENT_TASK /\ CURRENT_TASK' # t /\ Class(t) = "Normal"
    THEN vruntime'[t] = VrAdd(vruntime[t], VrIncrement(delta, task[t].weight))
    ELSE vruntime'[t] = vruntime[t]

\* C40 (as stated): the delta applied to a Normal task's vruntime at a
\* scheduling decision is exactly the tick time accumulated while that task
\* was CURRENT_TASK since the previous task switch, and tick time accumulated
\* while a Realtime or Idle task was current is charged to no Normal task.
C40_ChargedTickTime ==
  [][AccumulatesForCurrent /\ ChargesOnly(ACCUMULATED_RUNTIME)]_vars

\* C40 (amended): the delta is the tick time accumulated while the task was
\* CURRENT_TASK since the previous task switch, or 1 when no tick was
\* accumulated; tick time accumulated while a Realtime or Idle task was
\* current is charged to no Normal task.
C40_ChargedTickTimeOrOne ==
  [][/\ AccumulatesForCurrent
     /\ ChargesOnly(IF ACCUMULATED_RUNTIME > 0 THEN ACCUMULATED_RUNTIME ELSE 1)]_vars

\* C40 witness: two ticks have arrived; the schedule() of a tick has
\* switched out a Realtime or Idle task, discarding its tick, and a Normal
\* task has been charged one tick period in all.
C40_Witness ==
  /\ TICK_COUNT = 2 /\ ACCUMULATED_RUNTIME = 0
  /\ \E o \in Tasks :
       /\ Class(o) # "Normal"
       /\ Top(o).pc = "sched_saved" /\ Top(o).origin = "tick"
  /\ \E t \in Tasks :
       /\ Class(t) = "Normal"
       /\ vruntime[t] = VrIncrement(TIMER_PERIOD_NS, task[t].weight)

====
